---------------------------- MODULE Spec2Model ----------------------------
(***************************************************************************)
(* Model of the GPU scheduling visualizer's preprocessing core:            *)
(*   tools/binary_format.py  - the .viz.bin codec and file writer          *)
(*   tools/preprocess_viz.py - the log aggregator (single and two pass)    *)
(*                                                                         *)
(* Conventions of the model                                                *)
(*   - a bytes object is a sequence of integers 0..255;                    *)
(*   - a Python float is an integer number of eighths (8 stands for 1.0,   *)
(*     2 for 0.25), which is exact for every value the model draws;        *)
(*   - a call that may raise returns [err, val]: err = "none" and the      *)
(*     value, or the name of the exception raised;                         *)
(*   - a dict is a function, its key set the function's DOMAIN.            *)
(***************************************************************************)
EXTENDS Integers, Sequences, FiniteSets, TLC

\* ------------------------------------------------------------------------
\* Generic helpers
\* ------------------------------------------------------------------------

Ok(v) == [err |-> "none", val |-> v]

Raise(e) == [err |-> e, val |-> <<>>]

RECURSIVE Pow2(_)
Pow2(k) == IF k = 0 THEN 1 ELSE 2 * Pow2(k - 1)

RECURSIVE SumSeq(_)
SumSeq(s) == IF s = <<>> THEN 0 ELSE Head(s) + SumSeq(Tail(s))

Zeros(n) == [i \in 1..n |-> 0]

Take(s, n) == SubSeq(s, 1, IF n < Len(s) THEN n ELSE Len(s))

Slice(s, a, b) == SubSeq(s, a + 1, IF b < Len(s) THEN b ELSE Len(s))

Range(s) == {s[i] : i \in DOMAIN s}

\* ------------------------------------------------------------------------
\* struct: little-endian packing ("<" formats)
\* ------------------------------------------------------------------------

\* struct.pack of one unsigned integer into n bytes, least significant first.
RECURSIVE LE(_, _)
LE(v, n) == IF n = 0 THEN <<>> ELSE <<v % 256>> \o LE(v \div 256, n - 1)

\* struct.unpack of an unsigned integer from its bytes.
RECURSIVE FromLE(_)
FromLE(b) == IF b = <<>> THEN 0 ELSE Head(b) + 256 * FromLE(Tail(b))

\* struct.pack raises struct.error for a value outside the field's range.
\* The model's integers are below 2^31, so for the 4 and 8 byte fields only
\* the lower end of the range can be left.
Fits(v, n) ==
  /\ v >= 0
  /\ n = 1 => v <= 255
  /\ n = 2 => v <= 65535

FloorLog2(n) == CHOOSE k \in 0..23 : Pow2(k) <= n /\ n < Pow2(k + 1)

\* The IEEE-754 binary32 bit pattern of the non-negative float n/8.
F32Bits(n) ==
  IF n = 0 THEN 0
  ELSE LET k == FloorLog2(n)
       IN  (k - 3 + 127) * Pow2(23) + (n - Pow2(k)) * Pow2(23 - k)

\* struct.pack("<f", n/8)
PackF32(n) == LE(F32Bits(n), 4)

\* struct.unpack("<f", b), as a number of eighths (exact for what PackF32 wrote).
UnpackF32(b) ==
  LET bits == FromLE(b)
      e    == bits \div Pow2(23)
      m    == bits % Pow2(23)
  IN  IF bits = 0 THEN 0
      ELSE LET k == e - 127 + 3
           IN  Pow2(k) + m \div Pow2(23 - k)

\* ------------------------------------------------------------------------
\* binary_format.py: constants and the header
\* ------------------------------------------------------------------------

\* b"GPUVIZ01"
MAGIC == <<71, 80, 85, 86, 73, 90, 48, 49>>

VERSION == 1

HEADER_SIZE == 256

\* struct.calcsize("<8sIIIBHxQQQQQ")
HEADER_PACKED_SIZE == 8 + 4 + 4 + 4 + 1 + 2 + 1 + 8 * 5

align_to_8_unmasked(offset) == offset + 7

align_to_8(offset) == (offset + 7) - ((offset + 7) % 8)

\* The keyword parameters of pack_header.
HeaderParams ==
  {"num_rounds", "num_jobs", "num_gpu_types", "total_gpus",
   "job_metadata_offset", "rounds_offset", "queue_offset", "index_offset",
   "config_json_offset"}

\* pack_header(**h): h is the record of keyword arguments of the call.
pack_header(h) ==
  IF DOMAIN h # HeaderParams THEN Raise("TypeError")
  ELSE IF ~ /\ Fits(h.num_rounds, 4) /\ Fits(h.num_jobs, 4)
            /\ Fits(h.num_gpu_types, 1) /\ Fits(h.total_gpus, 2)
            /\ Fits(h.job_metadata_offset, 8) /\ Fits(h.rounds_offset, 8)
            /\ Fits(h.queue_offset, 8) /\ Fits(h.index_offset, 8)
            /\ Fits(h.config_json_offset, 8)
       THEN Raise("struct.error")
  ELSE LET packed ==
             MAGIC \o LE(VERSION, 4) \o LE(h.num_rounds, 4) \o LE(h.num_jobs, 4)
             \o LE(h.num_gpu_types, 1) \o LE(h.total_gpus, 2) \o Zeros(1)
             \o LE(h.job_metadata_offset, 8) \o LE(h.rounds_offset, 8)
             \o LE(h.queue_offset, 8) \o LE(h.index_offset, 8)
             \o LE(h.config_json_offset, 8)
       IN  Ok(packed \o Zeros(HEADER_SIZE - Len(packed)))

unpack_header_any_magic(data) ==
  IF Len(data) < HEADER_SIZE THEN Raise("ValueError")
  ELSE LET d == Take(data, HEADER_PACKED_SIZE)
       IN  Ok([magic |-> Slice(d, 0, 8),
               version |-> FromLE(Slice(d, 8, 12)),
               num_rounds |-> FromLE(Slice(d, 12, 16)),
               num_jobs |-> FromLE(Slice(d, 16, 20)),
               num_gpu_types |-> FromLE(Slice(d, 20, 21)),
               total_gpus |-> FromLE(Slice(d, 21, 23)),
               job_metadata_offset |-> FromLE(Slice(d, 24, 32)),
               rounds_offset |-> FromLE(Slice(d, 32, 40)),
               queue_offset |-> FromLE(Slice(d, 40, 48)),
               index_offset |-> FromLE(Slice(d, 48, 56)),
               config_json_offset |-> FromLE(Slice(d, 56, 64))])

\* unpack_header(data)
unpack_header(data) ==
  IF Len(data) < HEADER_SIZE THEN Raise("ValueError")
  ELSE LET d == Take(data, HEADER_PACKED_SIZE)
           magic == Slice(d, 0, 8)
       IN  IF magic # MAGIC THEN Raise("ValueError")
           ELSE Ok([magic |-> magic,
                    version |-> FromLE(Slice(d, 8, 12)),
                    num_rounds |-> FromLE(Slice(d, 12, 16)),
                    num_jobs |-> FromLE(Slice(d, 16, 20)),
                    num_gpu_types |-> FromLE(Slice(d, 20, 21)),
                    total_gpus |-> FromLE(Slice(d, 21, 23)),
                    job_metadata_offset |-> FromLE(Slice(d, 24, 32)),
                    rounds_offset |-> FromLE(Slice(d, 32, 40)),
                    queue_offset |-> FromLE(Slice(d, 40, 48)),
                    index_offset |-> FromLE(Slice(d, 48, 56)),
                    config_json_offset |-> FromLE(Slice(d, 56, 64))])

\* ------------------------------------------------------------------------
\* binary_format.py: job metadata, round records, queue entries
\* ------------------------------------------------------------------------

JOB_METADATA_SIZE == 24

\* struct.calcsize("<IffHHIff")
ROUND_BASE_SIZE == 4 + 4 + 4 + 2 + 2 + 4 + 4 + 4

\* dict.get(k, default)
Get(d, k, default) == IF k \in DOMAIN d THEN d[k] ELSE default

pack_job_metadata_id16(job) ==
  IF ~ {"job_id", "type_id", "scale_factor", "arrival_round"} \subseteq DOMAIN job
  THEN Raise("KeyError")
  ELSE IF ~ (Fits(job.type_id, 2) /\ Fits(job.scale_factor, 1))
  THEN Raise("struct.error")
  ELSE Ok(LE(job.job_id, 2) \o Zeros(2) \o LE(job.type_id, 2)
          \o LE(job.scale_factor, 1) \o Zeros(1)
          \o LE(job.arrival_round, 4) \o LE(Get(job, "completion_round", 0), 4)
          \o PackF32(Get(job, "duration", 0)) \o Zeros(4))

\* pack_job_metadata(job), format "<IHBxIIfxxxx"
pack_job_metadata(job) ==
  IF ~ {"job_id", "type_id", "scale_factor", "arrival_round"} \subseteq DOMAIN job
  THEN Raise("KeyError")
  ELSE LET completion_round == Get(job, "completion_round", 0)
           duration == Get(job, "duration", 0)
       IN  IF ~ /\ Fits(job.job_id, 4) /\ Fits(job.type_id, 2)
                /\ Fits(job.scale_factor, 1) /\ Fits(job.arrival_round, 4)
                /\ Fits(completion_round, 4)
           THEN Raise("struct.error")
           ELSE Ok(LE(job.job_id, 4) \o LE(job.type_id, 2)
                   \o LE(job.scale_factor, 1) \o Zeros(1)
                   \o LE(job.arrival_round, 4) \o LE(completion_round, 4)
                   \o PackF32(duration) \o Zeros(4))

\* unpack_job_metadata(data)
unpack_job_metadata(data) ==
  IF Len(data) < JOB_METADATA_SIZE THEN Raise("struct.error")
  ELSE LET d == Take(data, JOB_METADATA_SIZE)
       IN  Ok([job_id |-> FromLE(Slice(d, 0, 4)),
               type_id |-> FromLE(Slice(d, 4, 6)),
               scale_factor |-> FromLE(Slice(d, 6, 7)),
               arrival_round |-> FromLE(Slice(d, 8, 12)),
               completion_round |-> FromLE(Slice(d, 12, 16)),
               duration |-> UnpackF32(Slice(d, 16, 20))])

compute_round_size_unaligned(num_gpu_types, total_gpus) ==
  ROUND_BASE_SIZE + num_gpu_types * 2 + total_gpus * 4

\* compute_round_size(num_gpu_types, total_gpus)
compute_round_size(num_gpu_types, total_gpus) ==
  align_to_8(ROUND_BASE_SIZE + num_gpu_types * 2 + total_gpus * 4)

\* struct.pack(f"<{n}H" or f"<{n}I", *values): the bytes of the values in turn.
PackList(values, width) ==
  [k \in 1..(Len(values) * width) |->
     LE(values[((k - 1) \div width) + 1], width)[((k - 1) % width) + 1]]

UnpackListLowByte(data, n, width) ==
  [i \in 1..n |-> FromLE(Slice(data, (i - 1) * width, (i - 1) * width + 1))]

\* struct.unpack(f"<{n}H" or f"<{n}I", data)
UnpackList(data, n, width) ==
  [i \in 1..n |-> FromLE(Slice(data, (i - 1) * width, i * width))]

\* pack_round(round_data, num_gpu_types, total_gpus)
pack_round(round_data, num_gpu_types, total_gpus) ==
  IF ~ /\ Fits(round_data.round, 4) /\ Fits(round_data.jobs_running, 2)
       /\ Fits(round_data.jobs_queued, 2) /\ Fits(round_data.jobs_completed, 4)
       /\ Len(round_data.gpu_used) = num_gpu_types
       /\ \A i \in DOMAIN round_data.gpu_used : Fits(round_data.gpu_used[i], 2)
       /\ Len(round_data.allocations) = total_gpus
       /\ \A i \in DOMAIN round_data.allocations : Fits(round_data.allocations[i], 4)
  THEN Raise("struct.error")
  ELSE LET base == LE(round_data.round, 4) \o PackF32(round_data.sim_time)
                   \o PackF32(round_data.utilization)
                   \o LE(round_data.jobs_running, 2) \o LE(round_data.jobs_queued, 2)
                   \o LE(round_data.jobs_completed, 4) \o PackF32(round_data.avg_jct)
                   \o PackF32(round_data.completion_rate)
           gpu_used == PackList(round_data.gpu_used, 2)
           allocations == PackList(round_data.allocations, 4)
           data == base \o gpu_used \o allocations
           target_size == compute_round_size(num_gpu_types, total_gpus)
       IN  Ok(data \o Zeros(target_size - Len(data)))

\* unpack_round(data, num_gpu_types, total_gpus)
unpack_round(data, num_gpu_types, total_gpus) ==
  IF Len(data) < ROUND_BASE_SIZE + num_gpu_types * 2 + total_gpus * 4
  THEN Raise("struct.error")
  ELSE LET o1 == ROUND_BASE_SIZE
           o2 == o1 + num_gpu_types * 2
       IN  Ok([round |-> FromLE(Slice(data, 0, 4)),
               sim_time |-> UnpackF32(Slice(data, 4, 8)),
               utilization |-> UnpackF32(Slice(data, 8, 12)),
               jobs_running |-> FromLE(Slice(data, 12, 14)),
               jobs_queued |-> FromLE(Slice(data, 14, 16)),
               jobs_completed |-> FromLE(Slice(data, 16, 20)),
               avg_jct |-> UnpackF32(Slice(data, 20, 24)),
               completion_rate |-> UnpackF32(Slice(data, 24, 28)),
               gpu_used |-> UnpackList(Slice(data, o1, o2), num_gpu_types, 2),
               allocations |-> UnpackList(Slice(data, o2, o2 + total_gpus * 4),
                                          total_gpus, 4)])

\* pack_queue_entry(queue)
pack_queue_entry(queue) ==
  IF ~ (Fits(Len(queue), 2) /\ \A i \in DOMAIN queue : Fits(queue[i], 4))
  THEN Raise("struct.error")
  ELSE Ok(LE(Len(queue), 2) \o PackList(queue, 4))

\* unpack_queue_entry(data)
unpack_queue_entry(data) ==
  IF Len(data) < 2 THEN Raise("struct.error")
  ELSE LET length == FromLE(Slice(data, 0, 2))
       IN  IF length = 0 THEN Ok(<<>>)
           ELSE IF Len(data) < 2 + length * 4 THEN Raise("struct.error")
           ELSE Ok(UnpackList(Slice(data, 2, 2 + length * 4), length, 4))

pack_queue_index_32(offsets) == Ok(PackList(offsets, 4))

\* pack_queue_index(offsets)
pack_queue_index(offsets) == Ok(PackList(offsets, 8))

\* unpack_queue_index(data, num_rounds)
unpack_queue_index(data, num_rounds) ==
  IF Len(data) < num_rounds * 8 THEN Raise("struct.error")
  ELSE Ok(UnpackList(Take(data, num_rounds * 8), num_rounds, 8))

\* ------------------------------------------------------------------------
\* binary_format.py: the file writer and the header reader
\* ------------------------------------------------------------------------

RECURSIVE JoinStr(_, _)
JoinStr(ss, sep) ==
  IF ss = <<>> THEN ""
  ELSE IF Len(ss) = 1 THEN ss[1]
  ELSE ss[1] \o sep \o JoinStr(Tail(ss), sep)

\* json.dumps(config): the text, keys in insertion order, separators ", " and ": ".
JsonDumps(config) ==
  LET gt(g) == "{\"name\": \"" \o g.name \o "\", \"count\": " \o ToString(g.count)
               \o ", \"gpus_per_node\": " \o ToString(g.gpus_per_node) \o "}"
      jt(t) == "{\"id\": " \o ToString(t.id) \o ", \"name\": \"" \o t.name
               \o "\", \"category\": \"" \o t.category \o "\"}"
  IN  "{\"policy\": \"" \o config.policy \o "\", \"gpu_types\": ["
      \o JoinStr([i \in DOMAIN config.gpu_types |-> gt(config.gpu_types[i])], ", ")
      \o "], \"measurement_window\": {\"start_job\": "
      \o ToString(config.measurement_window.start_job) \o ", \"end_job\": "
      \o ToString(config.measurement_window.end_job) \o "}, \"job_types\": ["
      \o JoinStr([i \in DOMAIN config.job_types |-> jt(config.job_types[i])], ", ")
      \o "]}"

Utf8TwoBytes(text) == [i \in 1..(2 * Len(text)) |-> 0 - 1]

\* text.encode('utf-8') of an ASCII text: one byte per character. The model
\* keeps the number of bytes; each byte of text is written as -1.
Utf8(text) == [i \in 1..Len(text) |-> 0 - 1]

\* The positional and keyword parameters of write_viz_file.
WriteParams == {"path", "config", "jobs", "rounds", "queues"}

\* Lines 258-262: queue_data and queue_index, built before the file is opened.
RECURSIVE QueueBlob(_, _, _)
QueueBlob(queues, queue_data, queue_index) ==
  IF queues = <<>> THEN Ok([queue_data |-> queue_data, queue_index |-> queue_index])
  ELSE LET e == pack_queue_entry(Head(queues))
       IN  IF e.err # "none" THEN Raise(e.err)
           ELSE QueueBlob(Tail(queues), queue_data \o e.val,
                          Append(queue_index, Len(queue_data)))

\* The f.write calls in turn; the first chunk whose packing raises ends the
\* writing and leaves what was written before it.
RECURSIVE WriteChunks(_, _)
WriteChunks(chunks, data) ==
  IF chunks = <<>> THEN [err |-> "none", data |-> data]
  ELSE IF Head(chunks).err # "none" THEN [err |-> Head(chunks).err, data |-> data]
  ELSE WriteChunks(Tail(chunks), data \o Head(chunks).val)

NoFile == [exists |-> FALSE, data |-> <<>>]

\* write_viz_file(**args) on a file system whose output path holds d:
\* the exception raised, if any, and what the path holds afterwards.
write_viz_file(args, d) ==
  IF DOMAIN args # WriteParams THEN [err |-> "TypeError", disk |-> d]
  ELSE
  LET config == args.config
      num_rounds == Len(args.rounds)
      num_jobs == Len(args.jobs)
      num_gpu_types == Len(config.gpu_types)
      total_gpus == SumSeq([i \in DOMAIN config.gpu_types |-> config.gpu_types[i].count])
      config_json == Utf8(JsonDumps(config))
      config_json_padded_size == align_to_8(Len(config_json))
      config_json_offset == HEADER_SIZE
      job_metadata_offset == config_json_offset + config_json_padded_size
      job_metadata_size == num_jobs * JOB_METADATA_SIZE
      job_metadata_padded_size == align_to_8(job_metadata_size)
      rounds_offset == job_metadata_offset + job_metadata_padded_size
      round_size == compute_round_size(num_gpu_types, total_gpus)
      rounds_total_size == num_rounds * round_size
      queue_offset == rounds_offset + rounds_total_size
      q == QueueBlob(args.queues, <<>>, <<>>)
  IN  IF q.err # "none" THEN [err |-> q.err, disk |-> d]
      ELSE
      LET queue_data == q.val.queue_data
          queue_padded_size == align_to_8(Len(queue_data))
          index_offset == queue_offset + queue_padded_size
          chunks ==
            << pack_header([num_rounds |-> num_rounds, num_jobs |-> num_jobs,
                            num_gpu_types |-> num_gpu_types, total_gpus |-> total_gpus,
                            job_metadata_offset |-> job_metadata_offset,
                            rounds_offset |-> rounds_offset,
                            queue_offset |-> queue_offset,
                            index_offset |-> index_offset,
                            config_json_offset |-> config_json_offset]),
               Ok(config_json \o Zeros(config_json_padded_size - Len(config_json))) >>
            \o [i \in DOMAIN args.jobs |-> pack_job_metadata(args.jobs[i])]
            \o << Ok(Zeros(job_metadata_padded_size - job_metadata_size)) >>
            \o [i \in DOMAIN args.rounds |->
                  pack_round(args.rounds[i], num_gpu_types, total_gpus)]
            \o << Ok(queue_data \o Zeros(queue_padded_size - Len(queue_data))),
                  pack_queue_index(q.val.queue_index) >>
          w == WriteChunks(chunks, <<>>)
      IN  [err |-> w.err, disk |-> [exists |-> TRUE, data |-> w.data]]

\* read_viz_header(path)
read_viz_header(d) ==
  IF ~ d.exists THEN Raise("FileNotFoundError")
  ELSE unpack_header(Take(d.data, HEADER_SIZE))

\* ------------------------------------------------------------------------
\* preprocess_viz.py: helpers
\* ------------------------------------------------------------------------

Max(a, b) == IF a >= b THEN a ELSE b

\* d[k] = v on a dict
Put(d, k, v) == (k :> v) @@ d

\* The ascending list of a set of integers.
RECURSIVE SortedSeq(_)
SortedSeq(S) ==
  IF S = {} THEN <<>>
  ELSE LET m == CHOOSE x \in S : \A y \in S : x <= y
       IN  <<m>> \o SortedSeq(S \ {m})

default_names == <<"k80", "p100", "v100", "a100", "h100", "b200">>

\* The list parse_cluster_spec builds for a legacy spec "c1:c2:...", from
\* the list of its counts.
legacy_gpu_types(counts) ==
  [i \in DOMAIN counts |->
     [name |-> IF i <= Len(default_names) THEN default_names[i]
               ELSE "gpu" \o ToString(i - 1),
      count |-> counts[i]]]

\* A string is the sequence of its characters. str.split(sep): the pieces
\* between the separators, empty pieces included.
RECURSIVE SplitOn(_, _)
SplitOn(text, sep) ==
  IF sep \notin Range(text) THEN <<text>>
  ELSE LET i == CHOOSE k \in DOMAIN text :
                  text[k] = sep /\ \A m \in 1..(k - 1) : text[m] # sep
       IN  <<SubSeq(text, 1, i - 1)>> \o SplitOn(SubSeq(text, i + 1, Len(text)), sep)

\* str.strip() for the blank.
RECURSIVE Strip(_)
Strip(text) ==
  IF text # <<>> /\ Head(text) = " " THEN Strip(Tail(text))
  ELSE IF text # <<>> /\ text[Len(text)] = " " THEN Strip(SubSeq(text, 1, Len(text) - 1))
  ELSE text

DigitValue == ("0" :> 0) @@ ("1" :> 1) @@ ("2" :> 2) @@ ("3" :> 3) @@ ("4" :> 4)
              @@ ("5" :> 5) @@ ("6" :> 6) @@ ("7" :> 7) @@ ("8" :> 8) @@ ("9" :> 9)

\* int(text) for a text of digits, letters, blanks and separators: the
\* blanks around it are dropped, and what is left must be digits.
IsIntText(text) ==
  Strip(text) # <<>> /\ \A i \in DOMAIN Strip(text) : Strip(text)[i] \in DOMAIN DigitValue

RECURSIVE DigitsValue(_)
DigitsValue(digits) ==
  IF digits = <<>> THEN 0
  ELSE 10 * DigitsValue(SubSeq(digits, 1, Len(digits) - 1)) + DigitValue[digits[Len(digits)]]

IntOfText(text) == DigitsValue(Strip(text))

RECURSIVE TextOf(_)
TextOf(chars) == IF chars = <<>> THEN "" ELSE Head(chars) \o TextOf(Tail(chars))

\* One part of a named spec: "name=count" or "name:count". The unpacking
\* of the split needs exactly two pieces, and the count must be an integer.
NamedPart(part) ==
  LET pieces == IF "=" \in Range(part) THEN SplitOn(part, "=")
                ELSE IF ":" \in Range(part) THEN SplitOn(part, ":")
                ELSE <<>>
  IN  IF Len(pieces) = 2 /\ IsIntText(pieces[2])
      THEN Ok([name |-> TextOf(Strip(pieces[1])), count |-> IntOfText(pieces[2])])
      ELSE Raise("ValueError")

\* A parser that falls back on one GPU of each of the first two default
\* types instead of raising.
parse_cluster_spec_with_default(spec) == Ok(legacy_gpu_types(<<1, 1>>))

\* parse_cluster_spec(spec): the named format when the spec holds '=' or
\* ',', the legacy format otherwise. Every failure is a ValueError.
parse_cluster_spec(spec) ==
  IF "=" \in Range(spec) \/ "," \in Range(spec)
  THEN LET parts == SplitOn(spec, ",")
       IN  IF \A i \in DOMAIN parts : NamedPart(parts[i]).err = "none"
           THEN Ok([i \in DOMAIN parts |-> NamedPart(parts[i]).val])
           ELSE Raise("ValueError")
  ELSE LET counts == SplitOn(spec, ":")
       IN  IF \A i \in DOMAIN counts : IsIntText(counts[i])
           THEN Ok(legacy_gpu_types([i \in DOMAIN counts |-> IntOfText(counts[i])]))
           ELSE Raise("ValueError")

\* get_job_category(job_type), for the type labels the model's logs use.
get_job_category(job_type) ==
  CASE job_type = "ResNet-18 (batch size 64)" -> "resnet"
    [] job_type = "ResNet-50 (batch size 64)" -> "resnet"
    [] job_type = "LM (batch size 5)" -> "language_model"
    [] OTHER -> "other"

\* round(x) of Python for x = n/2, n >= 0: a half goes to the even neighbour.
RoundHalves(n) ==
  IF n % 2 = 0 THEN n \div 2
  ELSE IF ((n - 1) \div 2) % 2 = 0 THEN (n - 1) \div 2 ELSE (n + 1) \div 2

\* _fill_quarter_slots(slots, job_id, num_quarters): the slots afterwards.
RECURSIVE FillFrom(_, _, _, _, _)
FillFrom(slots, job_id, num_quarters, s, filled) ==
  IF s > 4 \/ filled >= num_quarters THEN slots
  ELSE IF slots[s] = 0
       THEN FillFrom([slots EXCEPT ![s] = job_id], job_id, num_quarters, s + 1, filled + 1)
       ELSE FillFrom(slots, job_id, num_quarters, s + 1, filled)

_fill_quarter_slots(slots, job_id, num_quarters) ==
  FillFrom(slots, job_id, num_quarters, 1, 0)

\* A step without the range test, a worker index taken modulo the number
\* of GPUs.
_process_allocation_wrapping(worker_id, job_id, total_gpus, gpu_req, alloc) ==
  LET w == worker_id % total_gpus
      num_quarters == Max(1, RoundHalves(gpu_req))
      slots0 == alloc.current_gpu_slots
  IN  [current_allocations |->
         IF alloc.current_allocations[w + 1] = 0
         THEN [alloc.current_allocations EXCEPT ![w + 1] = job_id]
         ELSE alloc.current_allocations,
       current_gpu_slots |->
         IF num_quarters < 4
         THEN Put(slots0, w, _fill_quarter_slots(IF w \in DOMAIN slots0 THEN slots0[w]
                                                 ELSE <<0, 0, 0, 0>>, job_id, num_quarters))
         ELSE IF w \in DOMAIN slots0 THEN Put(slots0, w, <<job_id, job_id, job_id, job_id>>)
         ELSE slots0]

\* _process_allocation(...): current_allocations and current_gpu_slots
\* afterwards. Worker w is element w + 1 of the allocation list.
_process_allocation(worker_id, job_id, total_gpus, gpu_req, alloc) ==
  IF ~ (0 <= worker_id /\ worker_id < total_gpus) THEN alloc
  ELSE
  LET num_quarters == Max(1, RoundHalves(gpu_req))
      current_allocations ==
        IF alloc.current_allocations[worker_id + 1] = 0
        THEN [alloc.current_allocations EXCEPT ![worker_id + 1] = job_id]
        ELSE alloc.current_allocations
      slots0 == alloc.current_gpu_slots
      current_gpu_slots ==
        IF num_quarters < 4
        THEN LET have == IF worker_id \in DOMAIN slots0 THEN slots0[worker_id]
                         ELSE <<0, 0, 0, 0>>
             IN  Put(slots0, worker_id, _fill_quarter_slots(have, job_id, num_quarters))
        ELSE IF worker_id \in DOMAIN slots0
             THEN Put(slots0, worker_id, <<job_id, job_id, job_id, job_id>>)
             ELSE slots0
  IN  [current_allocations |-> current_allocations,
       current_gpu_slots |-> current_gpu_slots]

\* for worker_id in alloc['worker_ids']: _process_allocation(...)
RECURSIVE ProcessWorkers(_, _, _, _, _)
ProcessWorkers(worker_ids, job_id, total_gpus, gpu_req, alloc) ==
  IF worker_ids = <<>> THEN alloc
  ELSE ProcessWorkers(Tail(worker_ids), job_id, total_gpus, gpu_req,
         _process_allocation(Head(worker_ids), job_id, total_gpus, gpu_req, alloc))

\* for alloc_entry in bulk_allocs: ...
RECURSIVE ProcessBulk(_, _, _, _)
ProcessBulk(entries, job_gpu_request, total_gpus, alloc) ==
  IF entries = <<>> THEN alloc
  ELSE ProcessBulk(Tail(entries), job_gpu_request, total_gpus,
         ProcessWorkers(Head(entries).worker_ids, Head(entries).job_id, total_gpus,
                        Get(job_gpu_request, Head(entries).job_id, 8), alloc))

\* ------------------------------------------------------------------------
\* preprocess_simulation, single pass (max_rounds = 0): lines 293-390
\* A log line is the event its parser returns:
\*   [kind |-> "arrival", job_id, job_type, scale_factor, gpu_request]
\*   [kind |-> "completion", job_id, duration]
\*   [kind |-> "bulk", entries |-> <<[job_id, worker_ids], ...>>]
\*   [kind |-> "alloc", job_id, worker_ids]
\*   [kind |-> "telemetry", telem |-> the payload dict]
\* ------------------------------------------------------------------------

\* Lines 247-251 and 294-305: the locals before the first line is read.
SPInit(total_gpus) ==
  [jobs |-> <<>>, job_index |-> <<>>, job_type_map |-> <<>>,
   job_types_list |-> <<>>, job_gpu_request |-> <<>>,
   allocations_by_round |-> <<>>, gpu_slots_by_round |-> <<>>,
   telemetry_data |-> <<>>, newly_completed_by_round |-> <<>>,
   pending_completed_ids |-> {}, avg_jct_by_round |-> <<>>,
   jct_running_sum |-> 0, jct_running_count |-> 0,
   has_sharing |-> FALSE, current_round |-> 0 - 1,
   current_allocations |-> Zeros(total_gpus), current_gpu_slots |-> <<>>]

\* A registration that numbers the type by the jobs seen and takes the
\* current round as it is.
SPArrivalPerJob(st, arrival) ==
  [st EXCEPT
     !.job_type_map = Put(@, arrival.job_type, Len(st.jobs)),
     !.job_types_list = Append(@, [id |-> Len(st.jobs), name |-> arrival.job_type,
                                   category |-> get_job_category(arrival.job_type)]),
     !.job_gpu_request = Put(@, arrival.job_id, arrival.gpu_request),
     !.has_sharing = @ \/ arrival.gpu_request < 8,
     !.jobs = Append(@, [job_id |-> arrival.job_id,
                         type_id |-> Len(st.jobs),
                         scale_factor |-> arrival.scale_factor,
                         arrival_round |-> st.current_round,
                         completion_round |-> 0,
                         duration |-> 0]),
     !.job_index = Put(@, arrival.job_id, Len(st.jobs) + 1)]

\* Lines 309-334. job_index[id] is the position in jobs of the dict it aliases.
SPArrival(st, arrival) ==
  LET job_type == arrival.job_type
      new_type == job_type \notin DOMAIN st.job_type_map
      type_id == Len(st.job_types_list)
      job_type_map == IF new_type THEN Put(st.job_type_map, job_type, type_id)
                      ELSE st.job_type_map
      gpu_req == arrival.gpu_request
      job_dict == [job_id |-> arrival.job_id,
                   type_id |-> job_type_map[job_type],
                   scale_factor |-> arrival.scale_factor,
                   arrival_round |-> Max(0, st.current_round),
                   completion_round |-> 0,
                   duration |-> 0]
  IN  [st EXCEPT
         !.job_type_map = job_type_map,
         !.job_types_list =
            IF new_type
            THEN Append(@, [id |-> type_id, name |-> job_type,
                            category |-> get_job_category(job_type)])
            ELSE @,
         !.job_gpu_request = Put(@, arrival.job_id, gpu_req),
         !.has_sharing = @ \/ gpu_req < 8,
         !.jobs = Append(@, job_dict),
         !.job_index = Put(@, arrival.job_id, Len(st.jobs) + 1)]

\* Lines 336-344
SPCompletion(st, completion) ==
  LET job_id == completion.job_id
  IN  [st EXCEPT
         !.jct_running_sum = @ + completion.duration,
         !.jct_running_count = @ + 1,
         !.pending_completed_ids = @ \cup {job_id},
         !.jobs = IF job_id \in DOMAIN st.job_index
                  THEN [@ EXCEPT ![st.job_index[job_id]] =
                          [@ EXCEPT !.completion_round = Max(0, st.current_round),
                                    !.duration = completion.duration]]
                  ELSE @]

\* Lines 346-356
SPBulk(st, bulk_allocs, total_gpus) ==
  LET a == ProcessBulk(bulk_allocs, st.job_gpu_request, total_gpus,
                       [current_allocations |-> st.current_allocations,
                        current_gpu_slots |-> st.current_gpu_slots])
  IN  [st EXCEPT !.current_allocations = a.current_allocations,
                 !.current_gpu_slots = a.current_gpu_slots]

\* Lines 358-367
SPAlloc(st, alloc, total_gpus) ==
  LET job_id == alloc.job_id
      gpu_req == Get(st.job_gpu_request, job_id, 8)
      a == ProcessWorkers(alloc.worker_ids, job_id, total_gpus, gpu_req,
                          [current_allocations |-> st.current_allocations,
                           current_gpu_slots |-> st.current_gpu_slots])
  IN  [st EXCEPT !.current_allocations = a.current_allocations,
                 !.current_gpu_slots = a.current_gpu_slots]

\* Lines 369-390. The running average is kept as the pair it is the quotient of.
SPTelemetry(st, telem, total_gpus) ==
  LET new_round == telem.round
  IN  [st EXCEPT
         !.allocations_by_round =
            IF new_round > 0 THEN Put(@, new_round, st.current_allocations)
            ELSE Put(@, 0, Zeros(total_gpus)),
         !.gpu_slots_by_round =
            IF new_round > 0 /\ st.has_sharing /\ DOMAIN st.current_gpu_slots # {}
            THEN Put(@, new_round, st.current_gpu_slots)
            ELSE @,
         !.newly_completed_by_round =
            IF st.pending_completed_ids # {}
            THEN Put(@, new_round, st.pending_completed_ids)
            ELSE @,
         !.pending_completed_ids = {},
         !.avg_jct_by_round =
            IF st.jct_running_count > 0
            THEN Put(@, new_round, [sum |-> st.jct_running_sum,
                                    count |-> st.jct_running_count])
            ELSE @,
         !.current_allocations = Zeros(total_gpus),
         !.current_gpu_slots = <<>>,
         !.current_round = new_round,
         !.telemetry_data = Append(@, telem)]

\* ------------------------------------------------------------------------
\* preprocess_simulation, two passes (max_rounds > 0): lines 253-291
\* ------------------------------------------------------------------------

\* Lines 247-251 and 99-106: the locals of the first pass, and the results
\* of the sampling and of the second pass, empty until those have run.
P1Init ==
  [jobs |-> <<>>, job_index |-> <<>>, job_type_map |-> <<>>,
   job_types_list |-> <<>>, job_gpu_request |-> <<>>,
   telemetry_data |-> <<>>, newly_completed_by_round |-> <<>>,
   pending_completed_ids |-> {}, avg_jct_by_round |-> <<>>,
   jct_running_sum |-> 0, jct_running_count |-> 0,
   has_sharing |-> FALSE, current_round |-> 0 - 1,
   downsampled |-> FALSE, sampled_rounds |-> {},
   allocations_by_round |-> <<>>, gpu_slots_by_round |-> <<>>]

\* Lines 110-135
P1Arrival(st, arrival) ==
  LET job_type == arrival.job_type
      new_type == job_type \notin DOMAIN st.job_type_map
      type_id == Len(st.job_types_list)
      job_type_map == IF new_type THEN Put(st.job_type_map, job_type, type_id)
                      ELSE st.job_type_map
      gpu_req == arrival.gpu_request
      job_dict == [job_id |-> arrival.job_id,
                   type_id |-> job_type_map[job_type],
                   scale_factor |-> arrival.scale_factor,
                   arrival_round |-> Max(0, st.current_round),
                   completion_round |-> 0,
                   duration |-> 0]
  IN  [st EXCEPT
         !.job_type_map = job_type_map,
         !.job_types_list =
            IF new_type
            THEN Append(@, [id |-> type_id, name |-> job_type,
                            category |-> get_job_category(job_type)])
            ELSE @,
         !.job_gpu_request = Put(@, arrival.job_id, gpu_req),
         !.has_sharing = @ \/ gpu_req < 8,
         !.jobs = Append(@, job_dict),
         !.job_index = Put(@, arrival.job_id, Len(st.jobs) + 1)]

\* Lines 137-145
P1Completion(st, completion) ==
  LET job_id == completion.job_id
  IN  [st EXCEPT
         !.jct_running_sum = @ + completion.duration,
         !.jct_running_count = @ + 1,
         !.pending_completed_ids = @ \cup {job_id},
         !.jobs = IF job_id \in DOMAIN st.job_index
                  THEN [@ EXCEPT ![st.job_index[job_id]] =
                          [@ EXCEPT !.completion_round = Max(0, st.current_round),
                                    !.duration = completion.duration]]
                  ELSE @]

\* Lines 147-156
P1Telemetry(st, telem) ==
  LET new_round == telem.round
  IN  [st EXCEPT
         !.newly_completed_by_round =
            IF st.pending_completed_ids # {}
            THEN Put(@, new_round, st.pending_completed_ids)
            ELSE @,
         !.pending_completed_ids = {},
         !.avg_jct_by_round =
            IF st.jct_running_count > 0
            THEN Put(@, new_round, [sum |-> st.jct_running_sum,
                                    count |-> st.jct_running_count])
            ELSE @,
         !.current_round = new_round,
         !.telemetry_data = Append(@, telem)]

\* Lines 264-267: the indices (from 0) of the telemetry entries that are kept.
\* int(i * (n / max_rounds)) is the floor of i * n / max_rounds; the float
\* product is exact for the lengths the model reaches.
sampled_indices_without_last(n, max_rounds) ==
  {(i * n) \div max_rounds : i \in 0..(max_rounds - 1)} \cup {0}

\* A sampling that keeps the first max_rounds entries.
sampled_indices_head(n, max_rounds) == 0..(max_rounds - 1)

sampled_indices(n, max_rounds) ==
  {(i * n) \div max_rounds : i \in 0..(max_rounds - 1)} \cup {0, n - 1}

\* Lines 276-284: the loop that folds the completions of skipped rounds
\* into the next sampled round.
RECURSIVE MergeCompletions(_, _, _, _, _, _)
MergeCompletions(all_rounds, newly, sampled_sorted, merged, pending_merge, si) ==
  IF all_rounds = <<>> THEN merged
  ELSE
  LET r == Head(all_rounds)
      ids == Get(newly, r, {})
      pm == pending_merge \cup ids
      hit == si < Len(sampled_sorted) /\ r = sampled_sorted[si + 1]
  IN  MergeCompletions(Tail(all_rounds), newly, sampled_sorted,
        IF hit /\ pm # {} THEN Put(merged, r, pm) ELSE merged,
        IF hit /\ pm # {} THEN {} ELSE pm,
        IF hit THEN si + 1 ELSE si)

\* Lines 261-286: which rounds to keep. sampled_rounds = None is
\* downsampled = FALSE.
Sample(st, max_rounds) ==
  LET n == Len(st.telemetry_data)
  IN  IF ~ (n > max_rounds) THEN st
      ELSE
      LET indices == sampled_indices(n, max_rounds)
          kept == SortedSeq({i \in indices : 0 <= i /\ i < n})
          sampled_telem == [k \in DOMAIN kept |-> st.telemetry_data[kept[k] + 1]]
          sampled_rounds == {sampled_telem[k].round : k \in DOMAIN sampled_telem}
          all_rounds_sorted == [k \in DOMAIN st.telemetry_data |->
                                  st.telemetry_data[k].round]
          sampled_sorted == SortedSeq(sampled_rounds)
      IN  [st EXCEPT
             !.downsampled = TRUE,
             !.sampled_rounds = sampled_rounds,
             !.newly_completed_by_round =
                MergeCompletions(all_rounds_sorted, st.newly_completed_by_round,
                                 sampled_sorted, <<>>, {}, 0),
             !.telemetry_data = sampled_telem]

\* Lines 167-172: the locals of _parse_allocations_for_rounds.
P2Init(total_gpus, downsampled) ==
  [allocations_by_round |-> <<>>, gpu_slots_by_round |-> <<>>,
   current_allocations |-> Zeros(total_gpus), current_gpu_slots |-> <<>>,
   current_round |-> 0 - 1, keep_current |-> ~ downsampled, err |-> "none"]

\* Lines 176-217: one line of the second pass. p is the pass's locals, st
\* the first pass's results (job_gpu_request, has_sharing, sampled_rounds).
P2Line(p, line, st, total_gpus) ==
  IF p.err # "none" THEN p
  ELSE IF p.keep_current /\ line.kind = "bad_bulk" THEN [p EXCEPT !.err = "ValueError"]
  ELSE IF p.keep_current /\ line.kind = "bulk" THEN
    LET a == ProcessBulk(line.entries, st.job_gpu_request, total_gpus,
                         [current_allocations |-> p.current_allocations,
                          current_gpu_slots |-> p.current_gpu_slots])
    IN  [p EXCEPT !.current_allocations = a.current_allocations,
                  !.current_gpu_slots = a.current_gpu_slots]
  ELSE IF p.keep_current /\ line.kind = "alloc" THEN
    LET gpu_req == Get(st.job_gpu_request, line.job_id, 8)
        a == ProcessWorkers(line.worker_ids, line.job_id, total_gpus, gpu_req,
                            [current_allocations |-> p.current_allocations,
                             current_gpu_slots |-> p.current_gpu_slots])
    IN  [p EXCEPT !.current_allocations = a.current_allocations,
                  !.current_gpu_slots = a.current_gpu_slots]
  ELSE IF line.kind = "telemetry" THEN
    LET new_round == line.telem.round
    IN  [p EXCEPT
           !.allocations_by_round =
              IF ~ p.keep_current THEN @
              ELSE IF new_round > 0 THEN Put(@, new_round, p.current_allocations)
              ELSE Put(@, 0, Zeros(total_gpus)),
           !.gpu_slots_by_round =
              IF p.keep_current /\ new_round > 0 /\ st.has_sharing
                 /\ DOMAIN p.current_gpu_slots # {}
              THEN Put(@, new_round, p.current_gpu_slots)
              ELSE @,
           !.current_allocations = Zeros(total_gpus),
           !.current_gpu_slots = <<>>,
           !.current_round = new_round,
           !.keep_current = (~ st.downsampled) \/ new_round \in st.sampled_rounds]
  ELSE p

\* for line in f: ... over the whole log
RECURSIVE P2Lines(_, _, _, _)
P2Lines(p, lines, st, total_gpus) ==
  IF lines = <<>> THEN p
  ELSE P2Lines(P2Line(p, Head(lines), st, total_gpus), Tail(lines), st, total_gpus)

\* _parse_allocations_for_rounds(log_path, ...): lines 161-219 and 289-291
SecondPass(st, lines, total_gpus) ==
  LET p == P2Lines(P2Init(total_gpus, st.downsampled), lines, st, total_gpus)
  IN  [st EXCEPT !.allocations_by_round = p.allocations_by_round,
                 !.gpu_slots_by_round = p.gpu_slots_by_round]

\* The exception that ends the second pass, if any: parse_allocation_bulk
\* raises on a mapping key that is no integer (log_parser.py line 80).
SecondPassError(st, lines, total_gpus) ==
  P2Lines(P2Init(total_gpus, st.downsampled), lines, st, total_gpus).err

\* ------------------------------------------------------------------------
\* preprocess_simulation: building the output, lines 392-464
\* ------------------------------------------------------------------------

\* sorted(jobs, key=lambda j: j['arrival_round']): a stable insertion sort.
RECURSIVE InsertByArrival(_, _)
InsertByArrival(sorted, job) ==
  IF sorted = <<>> THEN <<job>>
  ELSE IF sorted[Len(sorted)].arrival_round <= job.arrival_round
       THEN Append(sorted, job)
       ELSE Append(InsertByArrival(SubSeq(sorted, 1, Len(sorted) - 1), job),
                   sorted[Len(sorted)])

RECURSIVE SortByArrival(_)
SortByArrival(jobs) ==
  IF jobs = <<>> THEN <<>>
  ELSE InsertByArrival(SortByArrival(SubSeq(jobs, 1, Len(jobs) - 1)), jobs[Len(jobs)])

AdvanceCursorStrict(jobs_by_arrival, arrival_cursor, r) ==
  Max(arrival_cursor,
      Cardinality({i \in DOMAIN jobs_by_arrival :
                     jobs_by_arrival[i].arrival_round < r}))

\* Lines 413-415: the cursor after the jobs arrived by round r were added.
RECURSIVE AdvanceCursor(_, _, _)
AdvanceCursor(jobs_by_arrival, arrival_cursor, r) ==
  IF arrival_cursor < Len(jobs_by_arrival)
     /\ jobs_by_arrival[arrival_cursor + 1].arrival_round <= r
  THEN AdvanceCursor(jobs_by_arrival, arrival_cursor + 1, r)
  ELSE arrival_cursor

ActiveAfterReset(active_job_ids, arrived, newly_completed) ==
  arrived \ newly_completed

\* Lines 413-420: active_job_ids after the arrived jobs were added and the
\* newly completed ones removed.
ActiveAfter(active_job_ids, arrived, newly_completed) ==
  (active_job_ids \cup arrived) \ newly_completed

\* Lines 441-447: the sharing entries of one round.
\* An entry for every GPU of the snapshot, mixed or not.
round_sharing_every_gpu(slot_data) ==
  LET order == SortedSeq(DOMAIN slot_data)
  IN  [k \in DOMAIN order |-> <<order[k], slot_data[order[k]]>>]

round_sharing(slot_data) ==
  LET mixed == {g \in DOMAIN slot_data : Cardinality(Range(slot_data[g])) > 1}
      order == SortedSeq(mixed)
  IN  [k \in DOMAIN order |-> <<order[k], slot_data[order[k]]>>]

\* Lines 402-448: the loop over telemetry_data. A list made from a set of
\* small job ids comes out in ascending order.
RECURSIVE BuildRounds(_, _, _, _, _, _, _)
BuildRounds(st, gpu_types, total_gpus, k, arrival_cursor, active_job_ids, out) ==
  IF k > Len(st.telemetry_data) THEN out
  ELSE
  LET telem == st.telemetry_data[k]
      r == telem.round
      gpu_used == [i \in DOMAIN gpu_types |-> Get(telem, gpu_types[i].name \o "_used", 0)]
      allocs == Get(st.allocations_by_round, r, Zeros(total_gpus))
      running_jobs == {j \in Range(allocs) : j > 0}
      jobs_by_arrival == SortByArrival(st.jobs)
      cursor == AdvanceCursor(jobs_by_arrival, arrival_cursor, r)
      arrived == {jobs_by_arrival[i].job_id : i \in (arrival_cursor + 1)..cursor}
      newly_completed == Get(st.newly_completed_by_round, r, {})
      active == ActiveAfter(active_job_ids, arrived, newly_completed)
      queued == SortedSeq({jid \in active : jid \notin running_jobs})
      rd == [round |-> r,
             sim_time |-> Get(telem, "sim_time", 0),
             utilization |-> Get(telem, "utilization", 0),
             jobs_running |-> Get(telem, "jobs_running", 0),
             jobs_queued |-> Get(telem, "jobs_queued", Len(queued)),
             jobs_completed |-> Get(telem, "jobs_completed_total", 0),
             avg_jct |-> Get(st.avg_jct_by_round, r, [sum |-> 0, count |-> 1]),
             completion_rate |-> Get(telem, "windowed_completion_rate", 0),
             gpu_used |-> gpu_used,
             allocations |-> allocs]
  IN  BuildRounds(st, gpu_types, total_gpus, k + 1, cursor, active,
        [rounds |-> Append(out.rounds, rd),
         queues |-> Append(out.queues, queued),
         sharing |-> Append(out.sharing,
                            round_sharing(Get(st.gpu_slots_by_round, r, <<>>)))])

\* Lines 392-458: rounds, queues, sharing and config of a run.
BuildOutput(st, gpu_types, total_gpus, policy, measurement_window) ==
  LET out == BuildRounds(st, gpu_types, total_gpus, 1, 0, {},
                         [rounds |-> <<>>, queues |-> <<>>, sharing |-> <<>>])
  IN  [rounds |-> out.rounds, queues |-> out.queues, sharing |-> out.sharing,
       jobs |-> st.jobs,
       config |-> [policy |-> policy,
                   gpu_types |-> gpu_types,
                   measurement_window |-> [start_job |-> measurement_window[1],
                                           end_job |-> measurement_window[2]],
                   job_types |-> st.job_types_list]]

\* Lines 460-464: the call of write_viz_file, on output path content d.
WriteOutput(o, output_path, d) ==
  LET has_any_sharing == \E k \in DOMAIN o.sharing : Len(o.sharing[k]) > 0
  IN  write_viz_file([path |-> output_path, config |-> o.config, jobs |-> o.jobs,
                      rounds |-> o.rounds, queues |-> o.queues,
                      sharing |-> IF has_any_sharing THEN o.sharing ELSE "None"],
                     d)

\* ------------------------------------------------------------------------
\* State
\* ------------------------------------------------------------------------

VARIABLES
  \* two runs of preprocess_simulation on one log
  cluster_spec, \* the cluster_spec argument, as its characters
  gpu_types,    \* parse_cluster_spec(cluster_spec), with gpus_per_node
  max_rounds,   \* the max_rounds argument of the two-pass run (> 0)
  log,          \* the lines of the log file read so far
  phase,        \* "config", "scan", "pass2", "build", "write", "done";
                \* "rejected" when parse_cluster_spec raised, "raised" when
                \* both runs ended in an exception while reading the log
  sp,           \* locals of the single-pass run (max_rounds = 0)
  tp,           \* locals of the two-pass run
  sp_out,       \* what the single-pass run hands to write_viz_file
  tp_out,       \* what the two-pass run hands to write_viz_file
  sp_file,      \* outcome of the single-pass run: [err, disk]
  tp_file,      \* outcome of the two-pass run: [err, disk]
  \* a caller of the codec (binary_format.py)
  call,         \* the last call: [fn, args]
  ret,          \* what it returned or raised: [err, val]
  buf,          \* the byte buffer the caller holds
  packed,       \* where buf comes from: [fn, args] of the pack call, or "raw"
  disk,         \* the file at the path the caller writes: [exists, data]
  wargs         \* the arguments of the last write_viz_file call

runVars == <<cluster_spec, gpu_types, max_rounds, log, phase, sp, tp, sp_out, tp_out, sp_file, tp_file>>

codecVars == <<call, ret, buf, packed, disk, wargs>>

vars == <<runVars, codecVars>>

total_gpus_of(types) == SumSeq([i \in DOMAIN types |-> types[i].count])

\* ------------------------------------------------------------------------
\* The logs the model feeds to the program
\* ------------------------------------------------------------------------

MaxJobId == 2

MaxEvents == 3

MaxTelemetry == 3

MaxMaxRounds == 2

JobIds == 0..MaxJobId

JobTypeOf(j) == IF j % 2 = 0 THEN "ResNet-18 (batch size 64)" ELSE "LM (batch size 5)"

\* gpu_request of job j, in eighths: 1.0, 0.25, 0.5, 1.0, ...
GpuRequestOf(j) == CASE j % 3 = 1 -> 2 [] j % 3 = 2 -> 4 [] OTHER -> 8

ArrivalLines ==
  {[kind |-> "arrival", job_id |-> j, job_type |-> JobTypeOf(j),
    scale_factor |-> j + 1, gpu_request |-> GpuRequestOf(j)] : j \in JobIds}

CompletionLines ==
  {[kind |-> "completion", job_id |-> j, duration |-> 8 * (j + 1)] : j \in JobIds}

AllocLines ==
  {[kind |-> "alloc", job_id |-> j, worker_ids |-> <<0>>] : j \in JobIds}

BulkLines ==
  {[kind |-> "bulk", entries |-> <<[job_id |-> 1, worker_ids |-> <<0>>],
                                   [job_id |-> 2, worker_ids |-> <<0, 1>>]>>]}

NumLines(kinds) == Cardinality({i \in DOMAIN log : log[i].kind \in kinds})

\* The telemetry line the simulator writes next: the next round index and
\* the number of completions so far.
TelemetryLines ==
  {[kind |-> "telemetry",
    telem |-> [round |-> NumLines({"telemetry"}),
               jobs_completed_total |-> NumLines({"completion"})]]}

\* The cluster_spec arguments: "1:1", and specs parse_cluster_spec
\* rejects: the empty string, a count that is no integer in either format,
\* a part of a named spec without separator, a part with two '=', and a
\* single named part written with ':' (read as the legacy format).
ClusterSpecs ==
  {<<"1", ":", "1">>,
   <<>>,
   <<"1", ":", "x">>,
   <<"G", "=", "x">>,
   <<"G", "=", "1", ",", "T">>,
   <<"G", "=", "1", "=", "2">>,
   <<"G", ":", "4">>}

\* The output file of the two-pass run is there before the run.
OldFile == [exists |-> TRUE, data |-> <<1, 2, 3>>]

\* Malformed lines. "noise": a line whose payload does not parse, so that
\* every parser returns None. "bad_bulk": ALLOCATION {"abc": [0]}, a mapping
\* key that is no integer. "bad_telemetry": TELEMETRY {"sim_time": 1.0}, a
\* payload without the round index.
NoiseLines == {[kind |-> "noise"]}

BadBulkLines == {[kind |-> "bad_bulk"]}

BadTelemetryLines == {[kind |-> "bad_telemetry", telem |-> [sim_time |-> 8]]}

\* ------------------------------------------------------------------------
\* Actions
\* ------------------------------------------------------------------------

total_gpus == total_gpus_of(gpu_types)

CodecIdle ==
  /\ call = [fn |-> "none"]
  /\ ret = Ok(<<>>)
  /\ buf = <<>>
  /\ packed = [fn |-> "raw"]
  /\ disk = NoFile
  /\ wargs = <<>>

Init ==
  /\ CodecIdle
  /\ cluster_spec \in ClusterSpecs
  /\ gpu_types = <<>>
  /\ max_rounds \in 1..MaxMaxRounds
  /\ log = <<>>
  /\ phase = "config"
  /\ sp = SPInit(0)
  /\ tp = P1Init
  /\ sp_out = <<>>
  /\ tp_out = <<>>
  /\ sp_file = [err |-> "none", disk |-> NoFile]
  /\ tp_file = [err |-> "none", disk |-> OldFile]

\* The first statements of preprocess_simulation, in both runs: the cluster
\* spec is parsed, and only then are the locals set up and the log opened.
ParseClusterSpec ==
  /\ phase = "config"
  /\ LET parsed == parse_cluster_spec(cluster_spec)
     IN  IF parsed.err # "none"
         THEN /\ phase' = "rejected"
              /\ sp_file' = [sp_file EXCEPT !.err = parsed.err]
              /\ tp_file' = [tp_file EXCEPT !.err = parsed.err]
              /\ UNCHANGED <<gpu_types, sp>>
         ELSE /\ phase' = "scan"
              /\ gpu_types' = [i \in DOMAIN parsed.val |->
                                 [name |-> parsed.val[i].name,
                                  count |-> parsed.val[i].count,
                                  gpus_per_node |-> 1]]
              /\ sp' = SPInit(total_gpus_of(gpu_types'))
              /\ UNCHANGED <<sp_file, tp_file>>
  /\ UNCHANGED <<cluster_spec, max_rounds, log, tp, sp_out, tp_out, codecVars>>

MayAppend(kinds, bound) == phase = "scan" /\ NumLines(kinds) < bound

Events == {"arrival", "completion", "alloc", "bulk", "noise", "bad_bulk", "bad_telemetry"}

\* A run that raised reads no further line.
SpRunning == sp_file.err = "none"

TpRunning == tp_file.err = "none"

\* A job-arrival line is read by both runs.
ArrivalLine ==
  /\ MayAppend(Events, MaxEvents)
  /\ \E line \in ArrivalLines :
       /\ log' = Append(log, line)
       /\ sp' = IF SpRunning THEN SPArrival(sp, line) ELSE sp
       /\ tp' = P1Arrival(tp, line)
  /\ UNCHANGED <<cluster_spec, gpu_types, max_rounds, phase, sp_out, tp_out, sp_file, tp_file, codecVars>>

\* A job-completion line is read by both runs.
CompletionLine ==
  /\ MayAppend(Events, MaxEvents)
  /\ \E line \in CompletionLines :
       /\ log' = Append(log, line)
       /\ sp' = IF SpRunning THEN SPCompletion(sp, line) ELSE sp
       /\ tp' = P1Completion(tp, line)
  /\ UNCHANGED <<cluster_spec, gpu_types, max_rounds, phase, sp_out, tp_out, sp_file, tp_file, codecVars>>

\* A bulk allocation line: the first pass of the two-pass run skips it.
BulkLine ==
  /\ MayAppend(Events, MaxEvents)
  /\ \E line \in BulkLines :
       /\ log' = Append(log, line)
       /\ sp' = IF SpRunning THEN SPBulk(sp, line.entries, total_gpus) ELSE sp
  /\ UNCHANGED <<cluster_spec, gpu_types, max_rounds, phase, tp, sp_out, tp_out, sp_file, tp_file, codecVars>>

\* A single allocation line: the first pass of the two-pass run skips it.
AllocLine ==
  /\ MayAppend(Events, MaxEvents)
  /\ \E line \in AllocLines :
       /\ log' = Append(log, line)
       /\ sp' = IF SpRunning THEN SPAlloc(sp, line, total_gpus) ELSE sp
  /\ UNCHANGED <<cluster_spec, gpu_types, max_rounds, phase, tp, sp_out, tp_out, sp_file, tp_file, codecVars>>

\* A telemetry line is read by both runs.
TelemetryLine ==
  /\ MayAppend({"telemetry"}, MaxTelemetry)
  /\ \E line \in TelemetryLines :
       /\ log' = Append(log, line)
       /\ sp' = IF SpRunning THEN SPTelemetry(sp, line.telem, total_gpus) ELSE sp
       /\ tp' = P1Telemetry(tp, line.telem)
  /\ UNCHANGED <<cluster_spec, gpu_types, max_rounds, phase, sp_out, tp_out, sp_file, tp_file, codecVars>>

\* A line no parser matches: both runs read on.
NoiseLine ==
  /\ MayAppend(Events, MaxEvents)
  /\ \E line \in NoiseLines : log' = Append(log, line)
  /\ UNCHANGED <<cluster_spec, gpu_types, max_rounds, phase, sp, tp, sp_out, tp_out, sp_file, tp_file, codecVars>>

\* A bulk allocation line with a key that is no integer: parse_allocation_bulk
\* raises ValueError out of the single-pass run; the first pass of the
\* two-pass run does not call that parser.
BadBulkLine ==
  /\ MayAppend(Events, MaxEvents)
  /\ \E line \in BadBulkLines : log' = Append(log, line)
  /\ sp_file' = IF SpRunning THEN [sp_file EXCEPT !.err = "ValueError"] ELSE sp_file
  /\ UNCHANGED <<cluster_spec, gpu_types, max_rounds, phase, sp, tp, sp_out, tp_out, tp_file, codecVars>>

\* A telemetry line without a round index: telem['round'] raises KeyError in
\* the single-pass run (line 371) and in the first pass (line 149).
BadTelemetryLine ==
  /\ MayAppend(Events, MaxEvents)
  /\ \E line \in BadTelemetryLines : log' = Append(log, line)
  /\ sp_file' = IF SpRunning THEN [sp_file EXCEPT !.err = "KeyError"] ELSE sp_file
  /\ tp_file' = [tp_file EXCEPT !.err = "KeyError"]
  /\ phase' = "raised"
  /\ UNCHANGED <<cluster_spec, gpu_types, max_rounds, sp, tp, sp_out, tp_out, codecVars>>

\* The end of the log: the two-pass run chooses the rounds it keeps.
EndOfLog ==
  /\ phase = "scan"
  /\ phase' = "pass2"
  /\ tp' = Sample(tp, max_rounds)
  /\ UNCHANGED <<cluster_spec, gpu_types, max_rounds, log, sp, sp_out, tp_out, sp_file, tp_file, codecVars>>

\* The two-pass run reads the log again for the allocations.
RunSecondPass ==
  /\ phase = "pass2"
  /\ phase' = "build"
  /\ tp' = SecondPass(tp, log, total_gpus)
  /\ tp_file' = [tp_file EXCEPT !.err = SecondPassError(tp, log, total_gpus)]
  /\ UNCHANGED <<cluster_spec, gpu_types, max_rounds, log, sp, sp_out, tp_out, sp_file, codecVars>>

\* Both runs build their rounds, queues and sharing lists.
Build ==
  /\ phase = "build"
  /\ phase' = "write"
  /\ sp_out' = IF SpRunning
               THEN BuildOutput(sp, gpu_types, total_gpus, "unknown", <<4000, 5000>>)
               ELSE sp_out
  /\ tp_out' = IF TpRunning
               THEN BuildOutput(tp, gpu_types, total_gpus, "unknown", <<4000, 5000>>)
               ELSE tp_out
  /\ UNCHANGED <<cluster_spec, gpu_types, max_rounds, log, sp, tp, sp_file, tp_file, codecVars>>

\* Both runs call write_viz_file.
Write ==
  /\ phase = "write"
  /\ phase' = "done"
  /\ sp_file' = IF SpRunning THEN WriteOutput(sp_out, "single.viz.bin", sp_file.disk)
                ELSE sp_file
  /\ tp_file' = IF TpRunning THEN WriteOutput(tp_out, "sampled.viz.bin", tp_file.disk)
                ELSE tp_file
  /\ UNCHANGED <<cluster_spec, gpu_types, max_rounds, log, sp, tp, sp_out, tp_out, codecVars>>

Next ==
  \/ ParseClusterSpec
  \/ ArrivalLine
  \/ CompletionLine
  \/ BulkLine
  \/ AllocLine
  \/ TelemetryLine
  \/ NoiseLine
  \/ BadBulkLine
  \/ BadTelemetryLine
  \/ EndOfLog
  \/ RunSecondPass
  \/ Build
  \/ Write

Spec == Init /\ [][Next]_vars

\* ------------------------------------------------------------------------
\* Logs in which a round index comes twice
\* ------------------------------------------------------------------------

\* A telemetry line that carries the round index of the telemetry line
\* before it.
RepeatedTelemetryLines ==
  LET T == {i \in DOMAIN log : log[i].kind = "telemetry"}
  IN  IF T = {} THEN {}
      ELSE {[kind |-> "telemetry",
             telem |-> [round |-> log[CHOOSE i \in T : \A n \in T : n <= i].telem.round,
                        jobs_completed_total |-> NumLines({"completion"})]]}

\* Both runs read it as they read any telemetry line.
RepeatedTelemetryLine ==
  /\ MayAppend({"telemetry"}, MaxTelemetry)
  /\ \E line \in RepeatedTelemetryLines :
       /\ log' = Append(log, line)
       /\ sp' = IF SpRunning THEN SPTelemetry(sp, line.telem, total_gpus) ELSE sp
       /\ tp' = P1Telemetry(tp, line.telem)
  /\ UNCHANGED <<cluster_spec, gpu_types, max_rounds, phase, sp_out, tp_out, sp_file, tp_file, codecVars>>

NextRepeat ==
  \/ Next
  \/ RepeatedTelemetryLine

SpecRepeat == Init /\ [][NextRepeat]_vars

\* ------------------------------------------------------------------------
\* The allocation step on its own: calls of _process_allocation between
\* round boundaries, with every argument drawn freely
\* ------------------------------------------------------------------------

MaxCalls == 3

\* Worker indices: below 0, the two GPUs of the cluster "1:1", and one past.
AllocWorkers == {0 - 1, 0, 1, 2}

\* gpu_req in eighths: 0.125, 0.625 and 1.0, that is 1, 2 and 4
\* quarter-slots (round(0.5) = 0, round(2.5) = 2).
AllocRequests == {1, 5, 8}

\* Lines 242-245 and 304-305 have run for the cluster "1:1"; no line is read.
InitAlloc ==
  /\ CodecIdle
  /\ cluster_spec = <<"1", ":", "1">>
  /\ gpu_types = [i \in 1..2 |-> [name |-> default_names[i], count |-> 1, gpus_per_node |-> 1]]
  /\ max_rounds = 1
  /\ log = <<>>
  /\ phase = "scan"
  /\ sp = SPInit(2)
  /\ tp = P1Init
  /\ sp_out = <<>>
  /\ tp_out = <<>>
  /\ sp_file = [err |-> "none", disk |-> NoFile]
  /\ tp_file = [err |-> "none", disk |-> NoFile]

\* One call _process_allocation(worker_id, job_id, total_gpus, gpu_req,
\* current_allocations, current_gpu_slots). call keeps the arguments as they
\* were passed; log keeps the claim as an allocation line.
CallProcessAllocation ==
  /\ Len(log) < MaxCalls
  /\ \E w \in AllocWorkers, j \in JobIds, g \in AllocRequests :
       LET a == _process_allocation(w, j, total_gpus, g,
                  [current_allocations |-> sp.current_allocations,
                   current_gpu_slots |-> sp.current_gpu_slots])
       IN  /\ call' = [fn |-> "_process_allocation",
                       args |-> [worker_id |-> w, job_id |-> j, gpu_req |-> g,
                                 current_allocations |-> sp.current_allocations,
                                 current_gpu_slots |-> sp.current_gpu_slots]]
           /\ sp' = [sp EXCEPT !.current_allocations = a.current_allocations,
                               !.current_gpu_slots = a.current_gpu_slots]
           /\ log' = Append(log, [kind |-> "alloc", job_id |-> j,
                                  worker_ids |-> <<w>>, gpu_req |-> g])
  /\ UNCHANGED <<cluster_spec, gpu_types, max_rounds, phase, tp, sp_out, tp_out, sp_file, tp_file,
                 ret, buf, packed, disk, wargs>>

\* A round boundary between the calls: lines 369-390.
RoundBoundary ==
  /\ Len(log) < MaxCalls
  /\ \E line \in TelemetryLines :
       /\ log' = Append(log, line)
       /\ sp' = SPTelemetry(sp, line.telem, total_gpus)
  /\ call' = [fn |-> "telemetry"]
  /\ UNCHANGED <<cluster_spec, gpu_types, max_rounds, phase, tp, sp_out, tp_out, sp_file, tp_file,
                 ret, buf, packed, disk, wargs>>

NextAlloc ==
  \/ CallProcessAllocation
  \/ RoundBoundary

SpecAlloc == InitAlloc /\ [][NextAlloc]_vars

\* ------------------------------------------------------------------------
\* A caller of the codec: the inputs it draws
\* ------------------------------------------------------------------------

MaxGpuTypes == 3

MaxTotalGpus == 5

MaxJobs == 2

MaxRounds == 2

MaxQueues == 2

\* Header field values at the ends of the field widths and beyond them.
HeaderInputs ==
  LET base ==
        {[num_rounds |-> r, num_jobs |-> j, num_gpu_types |-> g, total_gpus |-> n,
          job_metadata_offset |-> o[1], rounds_offset |-> o[2],
          queue_offset |-> o[3], index_offset |-> o[4],
          config_json_offset |-> o[5]] :
            r \in {0, 1000, 2147483647}, j \in {0, 500},
            g \in {0, 3, 255, 256}, n \in {0, 108, 65535, 65536},
            o \in {<<256, 1024, 50000, 60000, 200>>, <<0, 0, 0, 0, 0>>}}
  IN  base \cup
      {[k \in HeaderParams \cup {"sharing_data_offset", "sharing_index_offset"} |->
          IF k = "sharing_data_offset" THEN 70000
          ELSE IF k = "sharing_index_offset" THEN 80000
          ELSE h[k]] : h \in base}

\* (GPU-type count, total GPU count) pairs: all small ones, and those of the tests.
Shapes ==
  ((0..MaxGpuTypes) \X (0..MaxTotalGpus))
    \cup {<<3, 108>>, <<3, 12>>, <<1, 4>>, <<5, 500>>}

RoundInput(r, G, N, used, job) ==
  [round |-> r, sim_time |-> 8 * r, utilization |-> 4,
   jobs_running |-> 1, jobs_queued |-> 0, jobs_completed |-> r,
   avg_jct |-> 0, completion_rate |-> 20,
   gpu_used |-> [i \in 1..G |-> used],
   allocations |-> [i \in 1..N |-> IF i % 2 = 1 THEN job ELSE 0]]

JobInput(i) == [job_id |-> i, type_id |-> 0, scale_factor |-> 1, arrival_round |-> 0]

ConfigInput(policy, counts) ==
  [policy |-> policy,
   gpu_types |-> [i \in DOMAIN counts |->
                    [name |-> legacy_gpu_types(counts)[i].name, count |-> counts[i],
                     gpus_per_node |-> 1]],
   measurement_window |-> [start_job |-> 0, end_job |-> 10],
   job_types |-> <<[id |-> 0, name |-> "ResNet-18", category |-> "resnet"]>>]

RECURSIVE SeqsUpTo(_, _)
SeqsUpTo(S, n) ==
  IF n = 0 THEN {<<>>}
  ELSE LET shorter == SeqsUpTo(S, n - 1)
       IN  shorter \cup {Append(q, x) : q \in shorter, x \in S}

\* The sharing argument of a write_viz_file call: left out, None, or a list
\* with one entry for the first round.
SharingInputs == {"absent", "None", "entries"}

WriteInputs ==
  {[policy |-> pol, counts |-> c, num_jobs |-> nj, num_rounds |-> nr,
    queues |-> qs, sharing |-> sh] :
      pol \in {"fifo", "unknown", "max_min_fairness"},
      c \in {<<4>>, <<1, 1>>},
      nj \in 0..MaxJobs, nr \in 0..MaxRounds,
      qs \in SeqsUpTo({<<>>, <<1>>, <<1, 70000>>}, MaxQueues),
      sh \in SharingInputs}

WriteArgs(w) ==
  LET G == Len(w.counts)
      N == SumSeq(w.counts)
      args == [path |-> "out.viz.bin",
               config |-> ConfigInput(w.policy, w.counts),
               jobs |-> [i \in 1..w.num_jobs |-> JobInput(i)],
               rounds |-> [i \in 1..w.num_rounds |-> RoundInput(i - 1, G, N, 1, 1)],
               queues |-> w.queues]
  IN  IF w.sharing = "absent" THEN args
      ELSE IF w.sharing = "None"
           THEN [k \in DOMAIN args \cup {"sharing"} |->
                   IF k = "sharing" THEN <<>> ELSE args[k]]
           ELSE [k \in DOMAIN args \cup {"sharing"} |->
                   IF k = "sharing" THEN << << <<0, <<1, 1, 0, 0>> >> >> >> ELSE args[k]]

BADMAGIC == <<66, 65, 68, 77, 65, 71, 73, 67>>

\* Job dicts at the ends of the field widths and beyond them, with and
\* without the completion fields (a duration of 9876 eighths is 1234.5).
JobMetadataInputs ==
  LET open == {[job_id |-> j, type_id |-> t, scale_factor |-> f, arrival_round |-> a] :
                 j \in {0, 1, 70000, 2147483647}, t \in {0, 3, 65535, 65536},
                 f \in {1, 255, 256}, a \in {0, 100000}}
  IN  open \cup
      {[k \in DOMAIN o \cup {"completion_round", "duration"} |->
          IF k = "completion_round" THEN 200000
          ELSE IF k = "duration" THEN 9876 ELSE o[k]] : o \in open}

\* ------------------------------------------------------------------------
\* A caller of the codec: its calls
\* ------------------------------------------------------------------------

RunIdle ==
  /\ cluster_spec = <<>>
  /\ gpu_types = <<>>
  /\ max_rounds = 1
  /\ log = <<>>
  /\ phase = "scan"
  /\ sp = SPInit(0)
  /\ tp = P1Init
  /\ sp_out = <<>>
  /\ tp_out = <<>>
  /\ sp_file = [err |-> "none", disk |-> NoFile]
  /\ tp_file = [err |-> "none", disk |-> NoFile]

InitCodec == RunIdle /\ CodecIdle

\* The caller makes one use of the codec from a fresh start: it packs a
\* header, may damage the buffer and unpacks it; or sizes or packs a round;
\* or writes a file and reads its header back.
Fresh == call.fn = "none"

CallPackHeader ==
  \E h \in HeaderInputs :
    /\ Fresh
    /\ call' = [fn |-> "pack_header", args |-> h]
    /\ ret' = pack_header(h)
    /\ buf' = IF ret'.err = "none" THEN ret'.val ELSE buf
    /\ packed' = IF ret'.err = "none" THEN call' ELSE packed
    /\ UNCHANGED <<disk, wargs, runVars>>

\* The caller is handed a shorter buffer, or the test's bad buffer.
TruncateBuffer ==
  /\ call.fn = "pack_header" /\ packed.fn # "raw"
  /\ \E n \in {0, 8, 64, 255} :
       /\ n < Len(buf)
       /\ buf' = Take(buf, n)
  /\ packed' = [fn |-> "raw"]
  /\ UNCHANGED <<call, ret, disk, wargs, runVars>>

\* One byte of the buffer is overwritten: in the magic, in the version, in
\* the padding.
OverwriteBuffer ==
  /\ call.fn = "pack_header" /\ packed.fn # "raw"
  /\ \E i \in {1, 8, 9, 24, 65, 256}, v \in {0, 255} :
       /\ i <= Len(buf)
       /\ buf' = [buf EXCEPT ![i] = v]
  /\ packed' = [fn |-> "raw"]
  /\ UNCHANGED <<call, ret, disk, wargs, runVars>>

\* The buffer is followed by more bytes, or is the test's bad buffer.
ExtendBuffer ==
  /\ \/ call.fn = "pack_header" /\ packed.fn # "raw" /\ buf' = buf \o <<170, 255, 1>>
     \/ Fresh /\ buf = <<>> /\ buf' = BADMAGIC \o Zeros(248)
  /\ packed' = [fn |-> "raw"]
  /\ UNCHANGED <<call, ret, disk, wargs, runVars>>

CallUnpackHeader ==
  /\ call.fn \in {"none", "pack_header"}
  /\ call' = [fn |-> "unpack_header", args |-> buf]
  /\ ret' = unpack_header(buf)
  /\ UNCHANGED <<buf, packed, disk, wargs, runVars>>

CallComputeRoundSize ==
  \E s \in Shapes :
    /\ Fresh
    /\ call' = [fn |-> "compute_round_size", args |-> s]
    /\ ret' = Ok(compute_round_size(s[1], s[2]))
    /\ UNCHANGED <<buf, packed, disk, wargs, runVars>>

CallPackRound ==
  \E s \in Shapes, used \in {300, 65535, 65536}, job \in {1, 70000, 2147483647} :
    LET rd == RoundInput(42, s[1], s[2], used, job)
    IN  /\ Fresh
        /\ call' = [fn |-> "pack_round", args |-> <<rd, s[1], s[2]>>]
        /\ ret' = pack_round(rd, s[1], s[2])
        /\ buf' = IF ret'.err = "none" THEN ret'.val ELSE buf
        /\ packed' = IF ret'.err = "none" THEN call' ELSE packed
        /\ UNCHANGED <<disk, wargs, runVars>>

CallPackJobMetadata ==
  \E job \in JobMetadataInputs :
    /\ Fresh
    /\ call' = [fn |-> "pack_job_metadata", args |-> job]
    /\ ret' = pack_job_metadata(job)
    /\ buf' = IF ret'.err = "none" THEN ret'.val ELSE buf
    /\ packed' = IF ret'.err = "none" THEN call' ELSE packed
    /\ UNCHANGED <<disk, wargs, runVars>>

CallUnpackJobMetadata ==
  /\ call.fn = "pack_job_metadata" /\ ret.err = "none"
  /\ call' = [fn |-> "unpack_job_metadata", args |-> buf]
  /\ ret' = unpack_job_metadata(buf)
  /\ UNCHANGED <<buf, packed, disk, wargs, runVars>>

\* The packed round is unpacked: as it is, without its padding, or followed
\* by more bytes.
CallUnpackRound ==
  /\ call.fn = "pack_round" /\ ret.err = "none" /\ packed.fn = "pack_round"
  /\ \E unpadded \in BOOLEAN, more \in {<<>>, <<170, 255, 1>>} :
       LET G == packed.args[2]
           N == packed.args[3]
           data == (IF unpadded THEN Take(buf, ROUND_BASE_SIZE + 2 * G + 4 * N)
                    ELSE buf) \o more
       IN  /\ call' = [fn |-> "unpack_round", args |-> <<data, G, N>>]
           /\ ret' = unpack_round(data, G, N)
  /\ UNCHANGED <<buf, packed, disk, wargs, runVars>>

CallWriteVizFile ==
  \E w \in WriteInputs :
    LET res == write_viz_file(WriteArgs(w), disk)
    IN  /\ Fresh /\ buf = <<>>
        /\ call' = [fn |-> "write_viz_file", args |-> w]
        /\ wargs' = WriteArgs(w)
        /\ ret' = [err |-> res.err, val |-> <<>>]
        /\ disk' = res.disk
        /\ UNCHANGED <<buf, packed, runVars>>

CallReadVizHeader ==
  /\ call.fn \in {"none", "write_viz_file"} /\ buf = <<>>
  /\ call' = [fn |-> "read_viz_header", args |-> "out.viz.bin"]
  /\ ret' = read_viz_header(disk)
  /\ UNCHANGED <<buf, packed, disk, wargs, runVars>>

NextCodec ==
  \/ CallPackHeader
  \/ TruncateBuffer
  \/ OverwriteBuffer
  \/ ExtendBuffer
  \/ CallUnpackHeader
  \/ CallComputeRoundSize
  \/ CallPackJobMetadata
  \/ CallUnpackJobMetadata
  \/ CallPackRound
  \/ CallUnpackRound
  \/ CallWriteVizFile
  \/ CallReadVizHeader

SpecCodec == InitCodec /\ [][NextCodec]_vars

\* ------------------------------------------------------------------------
\* Properties of the codec, checked under SpecCodec
\* ------------------------------------------------------------------------

\* The header stored at the start of the file the caller wrote.
WrittenHeader == read_viz_header(disk)

SharingOffsets == {"sharing_data_offset", "sharing_index_offset"}

\* C1 - version gating of write_viz_file: a call without sharing data
\* (argument absent or None) writes a file whose header has
\* sharing_data_offset = sharing_index_offset = 0; a call with at least one
\* sharing entry writes a header with both offsets non-zero and divisible
\* by 8.
C1_VersionGating ==
  call.fn = "write_viz_file" =>
    /\ ret.err = "none"
    /\ WrittenHeader.err = "none"
    /\ SharingOffsets \subseteq DOMAIN WrittenHeader.val
    /\ \A k \in SharingOffsets :
         IF call.args.sharing \in {"absent", "None"}
         THEN WrittenHeader.val[k] = 0
         ELSE WrittenHeader.val[k] # 0 /\ WrittenHeader.val[k] % 8 = 0

SectionOffsets ==
  {"config_json_offset", "job_metadata_offset", "rounds_offset",
   "queue_offset", "index_offset"}

\* C2 - alignment of the writer: each of the five section offsets that
\* write_viz_file stores in the header of a file it wrote is a multiple of 8.
C2_OffsetsAligned ==
  (call.fn = "write_viz_file" /\ ret.err = "none") =>
    /\ WrittenHeader.err = "none"
    /\ \A k \in SectionOffsets : WrittenHeader.val[k] % 8 = 0

\* A file was written whose config JSON, queue data and round records all
\* need padding, with jobs, rounds and queues present.
C2_Witness ==
  /\ call.fn = "write_viz_file" /\ ret.err = "none"
  /\ Len(JsonDumps(wargs.config)) % 8 # 0
  /\ Len(wargs.jobs) = 1 /\ Len(wargs.rounds) = 2
  /\ wargs.queues = << <<1>>, <<1, 70000>> >>
  /\ Len(wargs.config.gpu_types) = 1
  /\ WrittenHeader.val.index_offset > WrittenHeader.val.queue_offset
  /\ WrittenHeader.val.queue_offset > WrittenHeader.val.rounds_offset

\* Every value of the keyword arguments h lies within its header field.
InFieldWidths(h) ==
  \A k \in DOMAIN h :
    /\ h[k] >= 0
    /\ k = "num_gpu_types" => h[k] <= 255
    /\ k = "total_gpus" => h[k] <= 65535

\* C3 - header round trip: for field values within the field widths,
\* pack_header returns exactly 256 bytes and unpack_header of them returns
\* every field that was passed (the version-2 fields sharing_data_offset and
\* sharing_index_offset included), magic equal to the magic literal and
\* version equal to VERSION.
C3_HeaderRoundTrip ==
  (call.fn = "pack_header" /\ InFieldWidths(call.args)) =>
    /\ ret.err = "none"
    /\ Len(ret.val) = 256
    /\ LET u == unpack_header(ret.val)
       IN  /\ u.err = "none"
           /\ DOMAIN call.args \subseteq DOMAIN u.val
           /\ \A k \in DOMAIN call.args : u.val[k] = call.args[k]
           /\ u.val.magic = MAGIC
           /\ u.val.version = VERSION

\* C4 - header validation: unpack_header raises the invalid-format error
\* and returns nothing when the buffer is shorter than 256 bytes or its
\* first 8 bytes are not the magic literal, whatever the rest holds; it
\* succeeds on every buffer of at least 256 bytes that starts with the magic.
C4_HeaderValidation ==
  call.fn = "unpack_header" =>
    LET data == call.args
    IN  IF Len(data) < 256 \/ SubSeq(data, 1, 8) # MAGIC
        THEN ret.err = "ValueError" /\ ret.val = <<>>
        ELSE ret.err = "none" /\ ret.val.magic = MAGIC

\* A buffer of full length whose magic was damaged in one byte, the rest
\* being a packed header, was rejected.
C4_Witness ==
  /\ call.fn = "unpack_header"
  /\ Len(call.args) >= 256
  /\ SubSeq(call.args, 1, 7) = SubSeq(MAGIC, 1, 7)
  /\ call.args[8] # MAGIC[8]
  /\ \E i \in 9..64 : call.args[i] # 0
  /\ ret.err = "ValueError"

\* C5 - format version: VERSION is 2, and every header pack_header returns,
\* and so the header of every file write_viz_file wrote, carries version 2.
C5_VersionIs2 ==
  /\ (call.fn = "pack_header" /\ ret.err = "none") =>
       VERSION = 2 /\ unpack_header(ret.val).val.version = 2
  /\ (call.fn = "write_viz_file" /\ ret.err = "none") =>
       WrittenHeader.val.version = 2

\* The least multiple of 8 that is >= 28 + 2*G + 4*N.
LeastMultipleOf8(G, N) ==
  CHOOSE m \in (28 + 2 * G + 4 * N)..(28 + 2 * G + 4 * N + 7) : m % 8 = 0

\* C6 - round record size: compute_round_size(G, N) is the least multiple of
\* 8 that is >= 28 + 2*G + 4*N (472, 88, 48 and 2040 for the shapes (3,108),
\* (3,12), (1,4) and (5,500)), and pack_round of a record with G used-counts
\* and N allocation slots returns exactly that many bytes.
C6_RoundSize ==
  /\ call.fn = "compute_round_size" =>
       /\ ret.val = LeastMultipleOf8(call.args[1], call.args[2])
       /\ call.args = <<3, 108>> => ret.val = 472
       /\ call.args = <<3, 12>> => ret.val = 88
       /\ call.args = <<1, 4>> => ret.val = 48
       /\ call.args = <<5, 500>> => ret.val = 2040
  /\ (call.fn = "pack_round" /\ ret.err = "none") =>
       /\ Len(call.args[1].gpu_used) = call.args[2]
       /\ Len(call.args[1].allocations) = call.args[3]
       /\ Len(ret.val) = LeastMultipleOf8(call.args[2], call.args[3])
       /\ Len(ret.val) = compute_round_size(call.args[2], call.args[3])

\* A round of 3 GPU types and 108 GPUs, whose 466 bytes of fields need 6
\* bytes of padding, was packed.
C6_Witness ==
  /\ call.fn = "pack_round" /\ ret.err = "none"
  /\ call.args[2] = 3 /\ call.args[3] = 108
  /\ Len(ret.val) = 472
  /\ SubSeq(ret.val, 467, 472) = Zeros(6)
  /\ ret.val[459] # 0

\* ------------------------------------------------------------------------
\* Properties of preprocess_simulation, checked under Spec
\* ------------------------------------------------------------------------

\* Both runs have built the lists they hand to write_viz_file.
Built ==
  /\ phase \in {"write", "done"}
  /\ sp_file.err \notin {"KeyError", "ValueError"}
  /\ tp_file.err \notin {"KeyError", "ValueError"}

\* C7 - end-to-end counts: the run with max_rounds = 0 completes and writes a
\* file whose header has num_rounds = the number of telemetry lines of the
\* log, num_jobs = the number of job-arrival lines and total_gpus = the sum
\* of the counts of the cluster specification.
C7_EndToEndCounts ==
  phase = "done" =>
    /\ sp_file.err = "none"
    /\ sp_file.disk.exists
    /\ LET h == read_viz_header(sp_file.disk)
       IN  /\ h.err = "none"
           /\ h.val.num_rounds = NumLines({"telemetry"})
           /\ h.val.num_jobs = NumLines({"arrival"})
           /\ h.val.total_gpus = total_gpus

\* C8 - bounded output: with max_rounds = M > 0 and more than M telemetry
\* rounds in the log the run builds at most M round records; with M rounds
\* or fewer it keeps every round.
C8_BoundedOutput ==
  Built =>
    IF NumLines({"telemetry"}) > max_rounds
    THEN Len(tp_out.rounds) <= max_rounds
    ELSE Len(tp_out.rounds) = NumLines({"telemetry"})

\* C9 - downsampling keeps the completed-job counter: the jobs_completed
\* values of the round records of the downsampled run are non-decreasing in
\* record order, and the last one equals the last one of the run without a
\* round bound on the same log.
C9_CompletedCounter ==
  (Built /\ tp.downsampled) =>
    /\ \A a, b \in DOMAIN tp_out.rounds :
         a <= b => tp_out.rounds[a].jobs_completed <= tp_out.rounds[b].jobs_completed
    /\ tp_out.rounds # <<>> /\ sp_out.rounds # <<>>
    /\ tp_out.rounds[Len(tp_out.rounds)].jobs_completed
         = sp_out.rounds[Len(sp_out.rounds)].jobs_completed

\* A downsampled run dropped a round, and jobs completed both before the
\* dropped round's telemetry line and after it.
C9_Witness ==
  /\ Built /\ tp.downsampled
  /\ Len(tp_out.rounds) < Len(sp_out.rounds)
  /\ \E k \in DOMAIN sp_out.rounds :
       /\ sp_out.rounds[k].round \notin tp.sampled_rounds
       /\ sp_out.rounds[k].jobs_completed > sp_out.rounds[1].jobs_completed
       /\ sp_out.rounds[k].jobs_completed
            < sp_out.rounds[Len(sp_out.rounds)].jobs_completed

\* Job j arrived with arrival round 0, no allocation line names it and no
\* completion line is about it.
WaitsForever(j) ==
  /\ \E i \in DOMAIN sp.jobs : sp.jobs[i].job_id = j /\ sp.jobs[i].arrival_round = 0
  /\ \E i \in DOMAIN tp.jobs : tp.jobs[i].job_id = j /\ tp.jobs[i].arrival_round = 0
  /\ \A i \in DOMAIN log :
       /\ log[i].kind = "alloc" => log[i].job_id # j
       /\ log[i].kind = "bulk" =>
            \A e \in DOMAIN log[i].entries : log[i].entries[e].job_id # j
       /\ log[i].kind = "completion" => log[i].job_id # j

\* C10 - queue persistence: a job with arrival round 0 that no allocation
\* line names and that never completes is in the queue of every round
\* record, in the single-pass run and in the bounded two-pass run.
C10_QueuePersistence ==
  Built =>
    \A j \in JobIds :
      WaitsForever(j) =>
        /\ \A k \in DOMAIN sp_out.queues : j \in Range(sp_out.queues[k])
        /\ \A k \in DOMAIN tp_out.queues : j \in Range(tp_out.queues[k])

\* A job waited through three rounds of the single-pass run and through the
\* rounds a downsampled run kept, while another job was placed and completed.
C10_Witness ==
  /\ Built /\ tp.downsampled
  /\ Len(sp_out.queues) = 3 /\ Len(tp_out.queues) >= 2
  /\ \E j \in JobIds :
       /\ WaitsForever(j)
       /\ \A k \in DOMAIN tp_out.queues : j \in Range(tp_out.queues[k])
  /\ \E i \in DOMAIN log : log[i].kind = "completion"
  /\ \E k \in DOMAIN sp_out.queues : Len(sp_out.queues[k]) = 1

\* The position in the log of the telemetry line that carries round index r.
TelemetryPos(r) ==
  CHOOSE i \in DOMAIN log : log[i].kind = "telemetry" /\ log[i].telem.round = r

\* The job ids of the job table whose arrival round is <= r.
ArrivedBy(jobs, r) ==
  {jobs[i].job_id : i \in {n \in DOMAIN jobs : jobs[n].arrival_round <= r}}

\* The job ids with a completion line before the telemetry line of round r.
CompletedBefore(r) ==
  {log[i].job_id : i \in {n \in 1..(TelemetryPos(r) - 1) : log[n].kind = "completion"}}

\* Every job id arrives once, and completes only after it arrived.
UniqueJobsLog ==
  /\ \A a, b \in DOMAIN log :
       (log[a].kind = "arrival" /\ log[b].kind = "arrival"
          /\ log[a].job_id = log[b].job_id) => a = b
  /\ \A c \in DOMAIN log :
       log[c].kind = "completion" =>
         \E a \in 1..(c - 1) : log[a].kind = "arrival" /\ log[a].job_id = log[c].job_id

\* The job ids an allocation vector holds; a slot of 0 is an idle GPU.
HeldBy(allocations) == {a \in Range(allocations) : a # 0}

\* The queue of record k of a run's output is the arrived jobs of the given
\* completion status that the record's allocation vector does not hold.
QueueIs(out, jobs, k, completed) ==
  LET r == out.rounds[k].round
      wanted == {j \in ArrivedBy(jobs, r) :
                   /\ j \notin HeldBy(out.rounds[k].allocations)
                   /\ (j \in CompletedBefore(r)) = completed}
  IN  /\ Range(out.queues[k]) = wanted
      /\ Len(out.queues[k]) = Cardinality(wanted)

SpanStart ==
  LET T == {i \in DOMAIN log : log[i].kind = "telemetry"}
  IN  IF T = {} THEN 0 ELSE CHOOSE i \in T : \A n \in T : n <= i

\* The job ids that a log line claims worker w for, in the order it names them.
RECURSIVE EntryClaims(_, _)
EntryClaims(entries, w) ==
  IF entries = <<>> THEN <<>>
  ELSE (IF w \in Range(Head(entries).worker_ids) THEN <<Head(entries).job_id>>
        ELSE <<>>) \o EntryClaims(Tail(entries), w)

LineClaims(line, w) ==
  IF line.kind = "alloc" THEN EntryClaims(<<line>>, w)
  ELSE IF line.kind = "bulk" THEN EntryClaims(line.entries, w)
  ELSE <<>>

\* The lines after position from, up to position to, that claim worker w.
ClaimLines(from, to, w) == {i \in (from + 1)..to : LineClaims(log[i], w) # <<>>}

\* The job that claimed worker w first among those lines.
FirstClaimer(from, to, w) ==
  LET first == CHOOSE i \in ClaimLines(from, to, w) :
                 \A n \in ClaimLines(from, to, w) : i <= n
  IN  LineClaims(log[first], w)[1]

\* C12 - first-claim-wins: within a round a slot of the allocation vector
\* that an allocation event, single or bulk, has claimed is not changed by a
\* later allocation event of the round; the slot holds the first job that
\* claimed it.
C12_FirstClaimWins ==
  (phase = "scan" /\ SpRunning) =>
    \A w \in 0..(total_gpus - 1) :
      ClaimLines(SpanStart, Len(log), w) # {} =>
        sp.current_allocations[w + 1] = FirstClaimer(SpanStart, Len(log), w)

\* The queue index of the file the caller wrote: the bytes from the header's
\* index_offset to the end of the file.
WrittenIndex ==
  unpack_queue_index(Slice(disk.data, WrittenHeader.val.index_offset, Len(disk.data)),
                     WrittenHeader.val.num_rounds)

\* The queue entry found in the written file at offset o of the queue blob.
WrittenQueueAt(o) ==
  unpack_queue_entry(Slice(disk.data, WrittenHeader.val.queue_offset + o,
                           WrittenHeader.val.index_offset))

\* C13 - queue index: a file written with one queue per round holds one
\* 8-byte index entry per round, entry i being the offset within the queue
\* blob where round i's entry begins, i.e. the sum of the sizes 2 + 4*len of
\* the entries before it, and unpack_queue_entry at that offset returns
\* queues[i].
C13_QueueIndex ==
  (call.fn = "write_viz_file" /\ ret.err = "none"
     /\ Len(wargs.queues) = Len(wargs.rounds)) =>
    /\ WrittenIndex.err = "none"
    /\ Len(disk.data) = WrittenHeader.val.index_offset + 8 * Len(wargs.rounds)
    /\ \A i \in DOMAIN wargs.queues :
         /\ WrittenIndex.val[i]
              = SumSeq([k \in 1..(i - 1) |-> 2 + 4 * Len(wargs.queues[k])])
         /\ WrittenQueueAt(WrittenIndex.val[i]).err = "none"
         /\ WrittenQueueAt(WrittenIndex.val[i]).val = wargs.queues[i]

\* A file with two rounds was written whose second queue, holding a job id
\* above 65535, starts 6 bytes into the blob, behind a one-job queue.
C13_Witness ==
  /\ call.fn = "write_viz_file" /\ ret.err = "none"
  /\ Len(wargs.rounds) = 2
  /\ wargs.queues = << <<1>>, <<1, 70000>> >>
  /\ WrittenIndex.val = <<0, 6>>
  /\ WrittenQueueAt(6).val = <<1, 70000>>

\* C14 - round record round trip: unpack_round of a packed round with G
\* used-counts up to 65535 and N allocation slots of full width returns the
\* round index, the job counts, the used-count vector and the allocation
\* vector that were packed, and reads only the first 28 + 2*G + 4*N bytes:
\* neither dropping the padding nor appending bytes changes the result.
C14_RoundRoundTrip ==
  (call.fn = "unpack_round" /\ packed.fn = "pack_round") =>
    LET r == packed.args[1]
    IN  /\ ret.err = "none"
        /\ ret.val.round = r.round
        /\ ret.val.jobs_running = r.jobs_running
        /\ ret.val.jobs_queued = r.jobs_queued
        /\ ret.val.jobs_completed = r.jobs_completed
        /\ ret.val.gpu_used = r.gpu_used
        /\ ret.val.allocations = r.allocations
        /\ ret.val = unpack_round(buf, packed.args[2], packed.args[3]).val

\* A round with used-counts of 65535 and job id 2147483647 in its slots was
\* unpacked from a buffer cut to 28 + 2*3 + 4*12 bytes and followed by three
\* foreign bytes.
C14_Witness ==
  /\ call.fn = "unpack_round" /\ packed.fn = "pack_round"
  /\ call.args[2] = 3 /\ call.args[3] = 12
  /\ Len(call.args[1]) = 28 + 6 + 48 + 3
  /\ Len(buf) = 88
  /\ ret.val.gpu_used = <<65535, 65535, 65535>>
  /\ ret.val.allocations[11] = 2147483647

\* The fields of job dict j that unpack_job_metadata must give back.
JobFields == {"job_id", "type_id", "scale_factor", "arrival_round", "completion_round"}

\* C15 - job metadata record: pack_job_metadata returns exactly 24 bytes for
\* every job within the field widths, packs a job given without
\* completion_round and duration with both equal to 0, and
\* unpack_job_metadata of the packed bytes returns the same job_id, type_id,
\* scale_factor, arrival_round and completion_round (job ids above 65535
\* included).
C15_JobMetadata ==
  /\ (call.fn = "pack_job_metadata" /\ InFieldWidths(call.args)
        /\ call.args.type_id <= 65535 /\ call.args.scale_factor <= 255) =>
       /\ ret.err = "none"
       /\ Len(ret.val) = 24
       /\ "completion_round" \notin DOMAIN call.args =>
            /\ SubSeq(ret.val, 13, 20) = Zeros(8)
            /\ unpack_job_metadata(ret.val).val.completion_round = 0
            /\ unpack_job_metadata(ret.val).val.duration = 0
  /\ (call.fn = "unpack_job_metadata" /\ packed.fn = "pack_job_metadata") =>
       /\ ret.err = "none"
       /\ \A k \in JobFields : ret.val[k] = Get(packed.args, k, 0)

\* A completed job with id 70000, type id 65535 and scale factor 255 was
\* packed and unpacked.
C15_Witness ==
  /\ call.fn = "unpack_job_metadata" /\ packed.fn = "pack_job_metadata"
  /\ packed.args.job_id = 70000
  /\ ret.val.job_id = 70000
  /\ ret.val.type_id = 65535
  /\ ret.val.scale_factor = 255
  /\ ret.val.completion_round = 200000
  /\ ret.val.duration = 9876

\* The least multiple of 8 that is >= n.
Pad8(n) == CHOOSE m \in n..(n + 7) : m % 8 = 0

\* C16 - section layout: the header of a written file reports the numbers of
\* rounds and jobs given, the number of GPU types of the config and the sum
\* of their counts; the sections config JSON, job metadata, rounds, queue
\* data and queue index follow in that order, each starting where the
\* previous padded section ends, with config_json_offset = 256 and
\* rounds_offset + num_rounds * round_size = queue_offset.
C16_SectionLayout ==
  (call.fn = "write_viz_file" /\ ret.err = "none") =>
    LET h == WrittenHeader.val
        G == Len(wargs.config.gpu_types)
        N == SumSeq([i \in DOMAIN wargs.config.gpu_types |->
                       wargs.config.gpu_types[i].count])
        json_len == Len(JsonDumps(wargs.config))
        round_size == LeastMultipleOf8(G, N)
        blob_len == SumSeq([k \in DOMAIN wargs.queues |-> 2 + 4 * Len(wargs.queues[k])])
    IN  /\ h.num_rounds = Len(wargs.rounds)
        /\ h.num_jobs = Len(wargs.jobs)
        /\ h.num_gpu_types = G
        /\ h.total_gpus = N
        /\ h.config_json_offset = 256
        /\ h.job_metadata_offset = 256 + Pad8(json_len)
        /\ h.rounds_offset = h.job_metadata_offset + Pad8(24 * Len(wargs.jobs))
        /\ h.queue_offset = h.rounds_offset + Len(wargs.rounds) * round_size
        /\ h.index_offset = h.queue_offset + Pad8(blob_len)
        /\ Len(disk.data) = h.index_offset + 8 * Len(wargs.queues)
        /\ \A i \in 1..json_len : disk.data[256 + i] = 0 - 1
        /\ \A i \in (256 + json_len + 1)..h.job_metadata_offset : disk.data[i] = 0
        /\ \A i \in DOMAIN wargs.jobs :
             unpack_job_metadata(
               Slice(disk.data, h.job_metadata_offset + 24 * (i - 1),
                     h.job_metadata_offset + 24 * i)).val.job_id = wargs.jobs[i].job_id
        /\ \A i \in DOMAIN wargs.rounds :
             unpack_round(
               Slice(disk.data, h.rounds_offset + round_size * (i - 1),
                     h.rounds_offset + round_size * i), G, N).val.round
               = wargs.rounds[i].round

\* A file with two jobs, two rounds of 46 bytes of fields each and one
\* queue was written, its config JSON needing padding.
C16_Witness ==
  /\ call.fn = "write_viz_file" /\ ret.err = "none"
  /\ Len(wargs.jobs) = 2 /\ Len(wargs.rounds) = 2 /\ wargs.queues = << <<1, 70000>> >>
  /\ Len(wargs.config.gpu_types) = 1
  /\ Len(JsonDumps(wargs.config)) % 8 # 0
  /\ WrittenHeader.val.queue_offset = WrittenHeader.val.rounds_offset + 96
  /\ WrittenHeader.val.index_offset = WrittenHeader.val.queue_offset + 16

\* ------------------------------------------------------------------------
\* Malformed lines
\* ------------------------------------------------------------------------

\* The single-pass state a log leaves when its malformed lines are taken out.
RECURSIVE ReadWellFormed(_, _, _)
ReadWellFormed(st, lines, gpus) ==
  IF lines = <<>> THEN st
  ELSE LET line == Head(lines)
           next == CASE line.kind = "arrival" -> SPArrival(st, line)
                     [] line.kind = "completion" -> SPCompletion(st, line)
                     [] line.kind = "bulk" -> SPBulk(st, line.entries, gpus)
                     [] line.kind = "alloc" -> SPAlloc(st, line, gpus)
                     [] line.kind = "telemetry" -> SPTelemetry(st, line.telem, gpus)
                     [] OTHER -> st
       IN  ReadWellFormed(next, Tail(lines), gpus)

\* C17: a malformed line (a payload that does not parse, a telemetry payload
\* without a round index, a bulk mapping whose job id is no integer) is no
\* match: neither run raises on it, and the state the single-pass run holds
\* while it reads is the one the well-formed lines alone produce.
C17_NoisyLinesTolerated ==
  phase \notin {"config", "rejected"} =>
    /\ phase # "raised"
    /\ sp_file.err \notin {"KeyError", "ValueError"}
    /\ tp_file.err \notin {"KeyError", "ValueError"}
    /\ phase = "scan" => sp = ReadWellFormed(SPInit(total_gpus), log, total_gpus)

\* The part of C17 that the code keeps: a line whose payload does not parse
\* changes nothing and raises nothing.
C17_UnparseableSkipped ==
  (phase = "scan" /\ SpRunning) => sp = ReadWellFormed(SPInit(total_gpus), log, total_gpus)

\* ------------------------------------------------------------------------
\* Configuration errors
\* ------------------------------------------------------------------------

\* The cluster specs of the model that cannot be parsed: all but "1:1".
UnparseableSpecs == ClusterSpecs \ {<<"1", ":", "1">>}

\* C18: when the cluster specification string cannot be parsed, both runs of
\* preprocess_simulation end in ValueError before any I/O: no line of the log
\* is ever read, nothing is built, the output file that was absent stays
\* absent and the one that was there keeps its bytes.
C18_ConfigErrorsFirst ==
  cluster_spec \in UnparseableSpecs =>
    /\ phase \in {"config", "rejected"}
    /\ phase = "rejected" => (sp_file.err = "ValueError" /\ tp_file.err = "ValueError")
    /\ log = <<>>
    /\ gpu_types = <<>>
    /\ sp_out = <<>> /\ tp_out = <<>>
    /\ sp_file.disk = NoFile
    /\ tp_file.disk = OldFile

C18_Witness ==
  /\ cluster_spec = <<"G", "=", "1", ",", "T">>
  /\ phase = "rejected"
  /\ tp_file = [err |-> "ValueError", disk |-> OldFile]

\* ------------------------------------------------------------------------
\* Round snapshots
\* ------------------------------------------------------------------------

\* The position of the last telemetry line before the one of round r; 0 when
\* there is none.
PrevTelemetryPos(r) ==
  LET T == {i \in 1..(TelemetryPos(r) - 1) : log[i].kind = "telemetry"}
  IN  IF T = {} THEN 0 ELSE CHOOSE i \in T : \A n \in T : n <= i

\* The jobs that the lines after position from, up to position to, claim
\* worker w for.
Claimers(from, to, w) == UNION {Range(LineClaims(log[i], w)) : i \in (from + 1)..to}

\* An allocation vector is the snapshot of round r: all-idle for round 0;
\* for r > 0 a slot no line since the previous telemetry line claimed is 0,
\* and a claimed slot holds a job that claimed it since that line.
SnapshotOf(allocations, r) ==
  \A w \in 0..(total_gpus - 1) :
    LET claimers == Claimers(PrevTelemetryPos(r), TelemetryPos(r), w)
    IN  IF r = 0 \/ claimers = {} THEN allocations[w + 1] = 0
        ELSE allocations[w + 1] \in claimers

\* The single-pass run takes a snapshot at every telemetry line and then
\* starts the next round from an empty vector and an empty quarter-slot map.
SinglePassSnapshots ==
  /\ Built => \A k \in DOMAIN sp_out.rounds :
                SnapshotOf(sp_out.rounds[k].allocations, sp_out.rounds[k].round)
  /\ (phase = "scan" /\ SpRunning /\ log # <<>> /\ log[Len(log)].kind = "telemetry") =>
       /\ sp.current_allocations = Zeros(total_gpus)
       /\ sp.current_gpu_slots = <<>>

\* C19 - round snapshot and reset: the allocation vector recorded for round
\* r > 0 holds exactly the claims of the allocation events seen since the
\* previous telemetry event, all other slots being 0; the per-round vector
\* and the quarter-slot map are then empty; the vector of round 0 is
\* all-idle. Stated for the records of the single-pass run and of the
\* two-pass run.
C19_SnapshotAndReset ==
  /\ SinglePassSnapshots
  /\ Built => \A k \in DOMAIN tp_out.rounds :
                SnapshotOf(tp_out.rounds[k].allocations, tp_out.rounds[k].round)

\* ------------------------------------------------------------------------
\* Round records
\* ------------------------------------------------------------------------

\* C20 - one immutable record per round: the single-pass run builds one
\* round record per telemetry line, and once the allocation vector and the
\* quarter-slot map of a round have been recorded, no later line, a telemetry
\* line with the same round index included, changes what is recorded for
\* that round.
C20_OneImmutableRecord ==
  [][/\ \A r \in DOMAIN sp.allocations_by_round :
          /\ r \in DOMAIN sp'.allocations_by_round
          /\ sp'.allocations_by_round[r] = sp.allocations_by_round[r]
     /\ \A r \in DOMAIN sp.gpu_slots_by_round :
          /\ r \in DOMAIN sp'.gpu_slots_by_round
          /\ sp'.gpu_slots_by_round[r] = sp.gpu_slots_by_round[r]
     /\ (phase' \in {"write", "done"} /\ sp_file'.err \notin {"KeyError", "ValueError"}) =>
          Len(sp_out'.rounds) = Cardinality({i \in DOMAIN log' : log'[i].kind = "telemetry"})
    ]_vars

\* ------------------------------------------------------------------------
\* Quarter-slots
\* ------------------------------------------------------------------------

\* max(1, round(gpu_request / 0.25)) for a request of g eighths, g in 0..9,
\* as Python computes it.
Quarters(g) ==
  CASE g <= 2 -> 1
    [] g \in 3..5 -> 2
    [] g = 6 -> 3
    [] OTHER -> 4

\* The last call of _process_allocation named a GPU of the cluster.
LastCallInRange ==
  /\ call.fn = "_process_allocation"
  /\ call.args.worker_id \in 0..(total_gpus - 1)

\* The quarter-slots of GPU w as the filling rule gives them for a sequence
\* of calls: ids are the four slots, taken marks the slots a job was written
\* into, present says whether the GPU has a slot array. A fractional job
\* takes the first min(q, free) free slots in index order; a full-GPU job
\* takes all four slots of an array that is there, and makes none.
RECURSIVE RuleSlots(_, _)
RuleSlots(calls, w) ==
  IF calls = <<>> \/ calls[Len(calls)].kind = "telemetry"
  THEN [present |-> FALSE, ids |-> <<0, 0, 0, 0>>, taken |-> {}]
  ELSE LET c == calls[Len(calls)]
           s == RuleSlots(SubSeq(calls, 1, Len(calls) - 1), w)
           free == (1..4) \ s.taken
           chosen == {i \in free : Cardinality({k \in free : k < i}) < Quarters(c.gpu_req)}
       IN  IF c.worker_ids[1] # w THEN s
           ELSE IF Quarters(c.gpu_req) < 4
           THEN [present |-> TRUE,
                 ids |-> [i \in 1..4 |-> IF i \in chosen THEN c.job_id ELSE s.ids[i]],
                 taken |-> s.taken \cup chosen]
           ELSE IF s.present
           THEN [present |-> TRUE, ids |-> <<c.job_id, c.job_id, c.job_id, c.job_id>>,
                 taken |-> 1..4]
           ELSE s

\* The quarter-slot map is what the filling rule gives, for every GPU.
FollowsRule ==
  \A w \in 0..(total_gpus - 1) :
    /\ (w \in DOMAIN sp.current_gpu_slots) = RuleSlots(log, w).present
    /\ w \in DOMAIN sp.current_gpu_slots =>
         /\ sp.current_gpu_slots[w] = RuleSlots(log, w).ids
         /\ Len(sp.current_gpu_slots[w]) = 4
         /\ \A i \in 1..4 :
              sp.current_gpu_slots[w][i] \in {0} \cup Claimers(SpanStart, Len(log), w)

\* C21 - quarter-slot filling: an allocation of a job with q < 4
\* quarter-slots writes the job id into the first min(q, number of empty
\* slots) empty positions of the GPU's 4-slot array in index order and never
\* overwrites a slot that a job occupies; every slot array has 4 entries,
\* each 0 or the id of a job allocated to that GPU in the current round.
C21_QuarterSlotFilling == FollowsRule

\* The same for calls whose job id is not 0, the value of an empty slot.
C21_FillingNonZeroIds ==
  (\A i \in DOMAIN log : log[i].kind = "alloc" => log[i].job_id # 0) => FollowsRule

\* C22 - full-GPU override: a job requesting a full GPU allocated to a GPU
\* that has a quarter-slot array in the current round sets all four slots to
\* its id; when the GPU has no array none is created; in both cases the
\* primary allocation slot holds the job that claimed the GPU first in the
\* round.
C22_FullGpuOverride ==
  (LastCallInRange /\ Quarters(call.args.gpu_req) = 4) =>
    LET w == call.args.worker_id
        j == call.args.job_id
    IN  /\ w \in DOMAIN call.args.current_gpu_slots =>
             (w \in DOMAIN sp.current_gpu_slots
                /\ sp.current_gpu_slots[w] = <<j, j, j, j>>)
        /\ w \notin DOMAIN call.args.current_gpu_slots => w \notin DOMAIN sp.current_gpu_slots
        /\ \A v \in DOMAIN sp.current_gpu_slots :
             v # w => (v \in DOMAIN call.args.current_gpu_slots
                         /\ sp.current_gpu_slots[v] = call.args.current_gpu_slots[v])
        /\ sp.current_allocations[w + 1] = FirstClaimer(SpanStart, Len(log), w)

\* The override itself, with the primary slot kept when it is not 0.
C22_OverrideKeepsNonZeroPrimary ==
  (LastCallInRange /\ Quarters(call.args.gpu_req) = 4) =>
    LET w == call.args.worker_id
        j == call.args.job_id
    IN  /\ w \in DOMAIN call.args.current_gpu_slots =>
             (w \in DOMAIN sp.current_gpu_slots
                /\ sp.current_gpu_slots[w] = <<j, j, j, j>>)
        /\ w \notin DOMAIN call.args.current_gpu_slots => w \notin DOMAIN sp.current_gpu_slots
        /\ sp.current_allocations[w + 1] =
             IF call.args.current_allocations[w + 1] # 0
             THEN call.args.current_allocations[w + 1] ELSE j

\* C30 - out-of-range workers are ignored: a call naming a worker index below
\* 0 or at least the total GPU count leaves the allocation vector and the
\* quarter-slot map as they were; in every reachable state the vector has
\* total-GPU-count slots and the map has keys in 0..total_gpus-1 only.
C30_OutOfRangeIgnored ==
  /\ Len(sp.current_allocations) = total_gpus
  /\ DOMAIN sp.current_gpu_slots \subseteq 0..(total_gpus - 1)
  /\ (call.fn = "_process_allocation" /\ call.args.worker_id \notin 0..(total_gpus - 1)) =>
       /\ sp.current_allocations = call.args.current_allocations
       /\ sp.current_gpu_slots = call.args.current_gpu_slots

\* A fractional job is sent to the worker one past the last GPU, after a call
\* below 0 and a call that made a slot array.
C30_Witness ==
  /\ Len(log) = 3
  /\ log[1].kind = "alloc" /\ log[1].worker_ids = <<0 - 1>>
  /\ call.fn = "_process_allocation"
  /\ call.args.worker_id = 2
  /\ call.args.gpu_req = 1
  /\ call.args.current_gpu_slots # <<>>
  /\ sp.current_gpu_slots = call.args.current_gpu_slots

\* ------------------------------------------------------------------------
\* Sharing entries
\* ------------------------------------------------------------------------

\* Two of the four slots differ.
Mixed(slots) == \E a, b \in 1..4 : slots[a] # slots[b]

\* The sharing list of a round against the quarter-slot snapshot of the round.
SharingOf(entries, slot_data) ==
  /\ \A i \in DOMAIN entries :
       /\ entries[i][1] \in DOMAIN slot_data
       /\ entries[i][2] = slot_data[entries[i][1]]
       /\ Mixed(entries[i][2])
  /\ \A g \in DOMAIN slot_data : Mixed(slot_data[g]) => \E i \in DOMAIN entries : entries[i][1] = g
  /\ \A i, n \in DOMAIN entries : i < n => entries[i][1] < entries[n][1]

RunSharing(out, st) ==
  /\ Len(out.sharing) = Len(out.rounds)
  /\ \A k \in DOMAIN out.sharing :
       SharingOf(out.sharing[k], Get(st.gpu_slots_by_round, out.rounds[k].round, <<>>))

\* C23 - sharing entries only for mixed GPUs: the sharing list of a round
\* holds an entry (GPU index, 4-slot array) for exactly the GPUs of the
\* round's quarter-slot snapshot whose four slots hold more than one distinct
\* value, a partly idle GPU included, in increasing GPU-index order; a GPU
\* whose four slots hold the same job has no entry.
C23_SharingOnlyMixed ==
  Built => (RunSharing(sp_out, sp) /\ RunSharing(tp_out, tp))

\* A round whose snapshot has GPU 0 full of one job and GPU 1 partly idle,
\* and so one sharing entry, for GPU 1.
C23_Witness ==
  /\ Built
  /\ \E k \in DOMAIN sp_out.sharing :
       LET slot_data == Get(sp.gpu_slots_by_round, sp_out.rounds[k].round, <<>>)
       IN  /\ DOMAIN slot_data = {0, 1}
           /\ slot_data[0] = <<2, 2, 2, 2>>
           /\ slot_data[1] = <<2, 2, 0, 0>>
           /\ sp_out.sharing[k] = << <<1, <<2, 2, 0, 0>> >> >>

\* A round with two mixed GPUs: the entries come in GPU-index order.
C23_WitnessOrder ==
  /\ Built
  /\ \E k \in DOMAIN tp_out.sharing :
       /\ Len(tp_out.sharing[k]) = 2
       /\ tp_out.sharing[k][1][1] = 0
       /\ tp_out.sharing[k][2][1] = 1

\* ------------------------------------------------------------------------
\* The job table
\* ------------------------------------------------------------------------

\* The positions of the arrival lines of the log, in log order.
ArrivalPositions == SortedSeq({i \in DOMAIN log : log[i].kind = "arrival"})

\* The round that is current at position p of the log: the round index of
\* the last telemetry line before p, and -1 when there is none.
RoundAt(p) ==
  LET T == {i \in 1..(p - 1) : log[i].kind = "telemetry"}
  IN  IF T = {} THEN 0 - 1
      ELSE log[CHOOSE i \in T : \A n \in T : n <= i].telem.round

\* The number of distinct type labels on the arrival lines before position p.
LabelsBefore(p) ==
  Cardinality({log[i].job_type : i \in {n \in 1..(p - 1) : log[n].kind = "arrival"}})

\* The first position of the log with an arrival line of the label of line p.
FirstOfLabel(p) ==
  CHOOSE i \in DOMAIN log :
    /\ log[i].kind = "arrival" /\ log[i].job_type = log[p].job_type
    /\ \A n \in 1..(i - 1) : ~ (log[n].kind = "arrival" /\ log[n].job_type = log[p].job_type)

\* The job list of a run registers the arrival lines of the log.
Registered(jobs) ==
  /\ Len(jobs) = Len(ArrivalPositions)
  /\ \A i \in DOMAIN jobs :
       LET p == ArrivalPositions[i]
       IN  /\ jobs[i].job_id = log[p].job_id
           /\ jobs[i].arrival_round = (IF RoundAt(p) < 0 THEN 0 ELSE RoundAt(p))
           /\ jobs[i].type_id = LabelsBefore(FirstOfLabel(p))
  /\ {jobs[i].type_id : i \in DOMAIN jobs}
       = 0..(Cardinality({log[p].job_type : p \in Range(ArrivalPositions)}) - 1)
  /\ \A i, n \in DOMAIN jobs :
       (jobs[i].type_id = jobs[n].type_id)
         = (log[ArrivalPositions[i]].job_type = log[ArrivalPositions[n]].job_type)

\* C24 - arrival registration: each job-arrival event records the job with
\* arrival round max(0, current round), round 0 before the first telemetry
\* event; type ids are given in first-occurrence order of the type labels,
\* so the ids in use are 0..k-1 for k distinct labels and two jobs have the
\* same type id exactly when they have the same label.
C24_ArrivalRegistration ==
  phase \notin {"config", "rejected"} =>
    /\ SpRunning => Registered(sp.jobs)
    /\ Registered(tp.jobs)

\* A job arrives before the first telemetry line, two more in round 1; the
\* second label is new, the third is the second again.
C24_Witness ==
  /\ phase = "scan" /\ SpRunning
  /\ Len(sp.jobs) = 3
  /\ [i \in 1..3 |-> sp.jobs[i].type_id] = <<0, 1, 1>>
  /\ [i \in 1..3 |-> sp.jobs[i].arrival_round] = <<0, 1, 1>>
  /\ tp.jobs = sp.jobs

\* The job ids of the arrival lines, each at its first occurrence only.
RECURSIVE FirstSeen(_, _)
FirstSeen(lines, seen) ==
  IF lines = <<>> THEN <<>>
  ELSE IF Head(lines).kind = "arrival" /\ Head(lines).job_id \notin seen
  THEN <<Head(lines).job_id>> \o FirstSeen(Tail(lines), seen \cup {Head(lines).job_id})
  ELSE FirstSeen(Tail(lines), seen)

\* C25 - job table: the job table a run hands to the writer holds one record
\* per job, in the order in which the jobs were first seen; a second arrival
\* event for a job id that is in the table adds no record.
C25_JobTable ==
  Built =>
    /\ [i \in DOMAIN sp_out.jobs |-> sp_out.jobs[i].job_id] = FirstSeen(log, {})
    /\ [i \in DOMAIN tp_out.jobs |-> tp_out.jobs[i].job_id] = FirstSeen(log, {})

\* The same for logs in which no job id arrives twice.
C25_JobTableUniqueArrivals ==
  (Built /\ Len(FirstSeen(log, {})) = Len(ArrivalPositions)) =>
    /\ [i \in DOMAIN sp_out.jobs |-> sp_out.jobs[i].job_id] = FirstSeen(log, {})
    /\ [i \in DOMAIN tp_out.jobs |-> tp_out.jobs[i].job_id] = FirstSeen(log, {})

\* The completion fields of every job record are those of the first
\* completion line for its job id after its arrival line; 0 and 0 when
\* there is none.
PatchedOnce(jobs) ==
  \A i \in DOMAIN jobs :
    LET p == ArrivalPositions[i]
        C == {c \in (p + 1)..Len(log) :
                log[c].kind = "completion" /\ log[c].job_id = jobs[i].job_id}
        first == CHOOSE c \in C : \A n \in C : c <= n
    IN  IF C = {} THEN jobs[i].completion_round = 0 /\ jobs[i].duration = 0
        ELSE /\ jobs[i].completion_round = (IF RoundAt(first) < 0 THEN 0 ELSE RoundAt(first))
             /\ jobs[i].duration = log[first].duration

\* C26 - completion patches a job once: a completion event for a registered
\* job sets the job's completion round to max(0, current round) and its
\* duration to the event's; the record is not changed after that, also not
\* by a further completion event for the same job id; a completion event
\* for an unknown job id changes no record. Stated for logs in which no job
\* id arrives twice.
C26_CompletionPatchesOnce ==
  (phase \notin {"config", "rejected"} /\ Len(FirstSeen(log, {})) = Len(ArrivalPositions)) =>
    /\ SpRunning => (Len(sp.jobs) = Len(ArrivalPositions) /\ PatchedOnce(sp.jobs))
    /\ Len(tp.jobs) = Len(ArrivalPositions) /\ PatchedOnce(tp.jobs)

\* The same for logs in which no job id completes twice.
C26_SingleCompletion ==
  (/\ phase \notin {"config", "rejected"}
   /\ Len(FirstSeen(log, {})) = Len(ArrivalPositions)
   /\ \A a, b \in DOMAIN log :
        (log[a].kind = "completion" /\ log[b].kind = "completion"
           /\ log[a].job_id = log[b].job_id) => a = b) =>
    /\ SpRunning => (Len(sp.jobs) = Len(ArrivalPositions) /\ PatchedOnce(sp.jobs))
    /\ Len(tp.jobs) = Len(ArrivalPositions) /\ PatchedOnce(tp.jobs)

\* ------------------------------------------------------------------------
\* Downsampling
\* ------------------------------------------------------------------------

\* The round indices of the telemetry lines of the log, in log order.
LogRounds ==
  LET T == SortedSeq({i \in DOMAIN log : log[i].kind = "telemetry"})
  IN  [k \in DOMAIN T |-> log[T[k]].telem.round]

\* The round indices of the records of a run's output, in record order.
OutRounds(out) == [k \in DOMAIN out.rounds |-> out.rounds[k].round]

\* s is t with some elements left out.
RECURSIVE IsSubsequence(_, _)
IsSubsequence(s, t) ==
  IF s = <<>> THEN TRUE
  ELSE IF t = <<>> THEN FALSE
  ELSE IF Head(s) = Head(t) THEN IsSubsequence(Tail(s), Tail(t))
  ELSE IsSubsequence(s, Tail(t))

\* C27 - downsampling keeps the ends: when the log has more telemetry rounds
\* than max_rounds, the rounds retained contain the first and the last
\* telemetry round of the log, and appear in the output in log order.
C27_KeepsTheEnds ==
  (Built /\ NumLines({"telemetry"}) > max_rounds) =>
    /\ tp.downsampled
    /\ OutRounds(tp_out) # <<>>
    /\ OutRounds(tp_out)[1] = LogRounds[1]
    /\ OutRounds(tp_out)[Len(tp_out.rounds)] = LogRounds[Len(LogRounds)]
    /\ IsSubsequence(OutRounds(tp_out), LogRounds)

\* Three telemetry rounds and max_rounds = 1: round 1 is dropped.
C27_Witness ==
  /\ Built
  /\ max_rounds = 1
  /\ LogRounds = <<0, 1, 2>>
  /\ OutRounds(tp_out) = <<0, 2>>

\* The record of round r in a run's output; the model's logs give every
\* round one record at most.
RecordOf(out, r) == CHOOSE k \in DOMAIN out.rounds : out.rounds[k].round = r

\* Record k of the two-pass output has the allocation vector and the queue
\* that the single-pass output has for the same round.
SameAsSinglePass(k) ==
  LET r == tp_out.rounds[k].round
  IN  /\ \E m \in DOMAIN sp_out.rounds : sp_out.rounds[m].round = r
      /\ tp_out.rounds[k].allocations = sp_out.rounds[RecordOf(sp_out, r)].allocations
      /\ tp_out.queues[k] = sp_out.queues[RecordOf(sp_out, r)]

\* C28 - downsampling keeps retained rounds intact: in a downsampled run
\* every retained round has the allocation vector and the queue that the
\* round has in the run without a round bound on the same log, also when the
\* round before it was skipped and when a job completed in a skipped round.
C28_RetainedRoundsIntact ==
  (Built /\ tp.downsampled) => \A k \in DOMAIN tp_out.rounds : SameAsSinglePass(k)

\* The same for round 0 and for the retained rounds whose predecessor is
\* retained too.
C28_IntactAfterRetained ==
  (Built /\ tp.downsampled) =>
    \A k \in DOMAIN tp_out.rounds :
      (tp_out.rounds[k].round = 0 \/ tp_out.rounds[k].round - 1 \in tp.sampled_rounds) =>
        SameAsSinglePass(k)

\* C29 - two-pass and single-pass agree: when max_rounds is set and the log
\* has no more telemetry rounds than max_rounds, the two-pass run produces
\* the job table, round records, queues and sharing entries of the
\* single-pass run on the same log, for every order of the events.
C29_TwoPassAgrees ==
  (Built /\ NumLines({"telemetry"}) <= max_rounds) =>
    /\ tp_out.jobs = sp_out.jobs
    /\ tp_out.rounds = sp_out.rounds
    /\ tp_out.queues = sp_out.queues
    /\ tp_out.sharing = sp_out.sharing

\* The same for logs in which every job's arrival line comes before its
\* first allocation line.
C29_AgreesArrivalFirst ==
  (/\ Built
   /\ NumLines({"telemetry"}) <= max_rounds
   /\ \A i \in DOMAIN log : \A w \in 0..(total_gpus - 1) :
        \A j \in Range(LineClaims(log[i], w)) :
          ~ \E a \in (i + 1)..Len(log) : log[a].kind = "arrival" /\ log[a].job_id = j) =>
    /\ tp_out.jobs = sp_out.jobs
    /\ tp_out.rounds = sp_out.rounds
    /\ tp_out.queues = sp_out.queues
    /\ tp_out.sharing = sp_out.sharing

====
